---------------------------- MODULE Spec2Model ----------------------------
(***************************************************************************)
(* Control flow of the tutorial and recorder scripts of loco-mujoco's      *)
(* G1 examples.  A run executes one script; the external simulation        *)
(* library is the environment: each of its calls returns, raises an        *)
(* Exception, or is interrupted by the user (KeyboardInterrupt).           *)
(* Print statements and time.sleep pacing are not modelled.                *)
(***************************************************************************)
EXTENDS Integers, Sequences, FiniteSets, TLC

VARIABLES
    script,         \* the script whose entry point runs
    pc,             \* position in the script; "done" = entry point returned,
                    \* "crashed" = an exception left the entry point
    i,              \* index of the outer loop over a fixed list (1-based)
    j,              \* index of the inner loop (range(n) counter)
    env,            \* binding of the script's first handle variable
    env2,           \* binding of the per-item handle variable
    live,           \* number of environment handles currently alive
    bg,             \* os.environ['MUJOCO_GL_BACKGROUND']
    step_count,     \* step_count of the simulation loops
    episode_count,  \* episode_count of test_g1_locomujoco
    flag,           \* absorbing / done / terminated of the last step
    answer,         \* raw text typed at the last prompt
    response,       \* the text after .strip().lower()
    step_result,    \* the tuple returned by the last env.step
    unpacked,       \* the variables bound by unpacking step_result
    successful,     \* successful_demos / len(available_datasets)
    lafan1_datasets,\* the names main looks up in explore_lafan1_datasets()
    steps_survived, \* steps_survived of the running control experiment
    fell_down,      \* fell_down of the running control experiment
    arg,            \* the argument a helper function is called with
    ret,            \* what the helper functions returned
    files,          \* the video files on disk that a recorder looks for
    h               \* history of the run (observations, not program state)

vars == <<script, pc, i, j, env, env2, live, bg, step_count, episode_count,
          flag, answer, response, step_result, unpacked, successful,
          lafan1_datasets, steps_survived, fell_down, arg, ret, files, h>>

-----------------------------------------------------------------------------
(* Bounds *)

\* episode_count of test_g1_locomujoco is unbounded; it saturates here
MaxEpisodes == 1

-----------------------------------------------------------------------------
(* The external library as seen by a script *)

\* an external call returns, raises Exception, or is interrupted by Ctrl+C
Outcomes == {"ok", "exc", "kbd"}

\* a method call on a name that holds no handle cannot return: Python raises
\* NameError / AttributeError, both subclasses of Exception
UseOutcomes(binding) == IF binding = "live" THEN Outcomes ELSE {"exc"}

\* input() returns the typed line, raises EOFError, or is interrupted
InputOutcomes == {"ok", "eof", "kbd"}

Max(a, b) == IF a >= b THEN a ELSE b

\* history after an external call that is not a creation
NoteCall(o, binding) ==
    [h EXCEPT !.raised = @ \/ o = "exc",
              !.kbd = @ \/ o = "kbd",
              !.badUse = @ \/ binding # "live"]

\* the creations that more than one call site of a script requests (the
\* fallback of g1_01_basic_datasets and tutorial_01 repeats the "walk" of
\* their loops; RLFactory.make("UnitreeG1") recurs in the lessons).  The
\* names of one list are distinct and every prompt lies between two runs
\* of a list, so no other failed creation can be requested again.
Reissued == {"UnitreeG1:walk", "UnitreeG1:"}

\* history after Factory.make for robot/dataset key, issued while `before`
\* handles are alive
NoteMake(o, key, before) ==
    [h EXCEPT !.raised = @ \/ o = "exc",
              !.kbd = @ \/ o = "kbd",
              !.retried = @ \/ key \in h.failed,
              !.failed = IF o = "exc" /\ key \in Reissued THEN @ \cup {key}
                         ELSE @,
              !.peak = IF o = "ok" THEN Max(@, before + 1) ELSE @]

\* history after env.step
NoteStep(o, binding) ==
    [NoteCall(o, binding) EXCEPT
              !.retried = @ \/ "step" \in h.failed,
              !.failed = IF o = "exc" THEN @ \cup {"step"} ELSE @]

\* history after input(): what failed before the user spoke is forgotten
NoteInput(o) ==
    [h EXCEPT !.failed = {},
              !.eof = @ \/ o = "eof",
              !.kbd = @ \/ o = "kbd"]

\* entering the loop `name` over a list of n items; whether every loop
\* entered before was run to the end of its list is remembered
LoopStart(hh, name, n) ==
    [hh EXCEPT !.loop = name, !.listLen = n, !.attempted = 0,
               !.failedItem = FALSE, !.inOrder = TRUE,
               !.complete = @ /\ hh.attempted = hh.listLen]

\* the attempt of item k of the current list
Attempt(hh, k) ==
    [hh EXCEPT !.inOrder = @ /\ k = hh.attempted + 1, !.attempted = k]

\* item k of the current list failed
Fail(hh, k) == [hh EXCEPT !.failedItem = TRUE]

\* item k of the list of n items of loop `name` is attempted with outcome o
Item(hh, name, n, k, o) ==
    LET a == Attempt(IF k = 1 THEN LoopStart(hh, name, n) ELSE hh, k)
    IN IF o = "exc" THEN Fail(a, k) ELSE a

\* pc after an external call at a site whose Exception handler is excpc and
\* whose KeyboardInterrupt handler is kbdpc ("crashed" when there is none)
After(o, okpc, excpc, kbdpc) ==
    CASE o = "ok" -> okpc
      [] o = "exc" -> excpc
      [] OTHER -> kbdpc

Scripts == {"rec", "tut1", "qbd", "l13", "g103", "g101", "tg1", "l11", "bcg",
            "smv", "l15", "exp", "laf", "l18", "t2f", "asz", "dnc",
            "ctl", "csc", "t02", "g104t", "rt",
            "xrec", "srec", "tda", "crec", "stut", "tle"}

Init ==
    /\ script \in Scripts
    /\ pc = "main"
    /\ i = 0
    /\ j = 0
    /\ env = "unbound"
    /\ env2 = "unbound"
    /\ live = 0
    /\ bg = "unset"
    /\ step_count = 0
    /\ episode_count = 0
    /\ flag = FALSE
    /\ answer = <<>>
    /\ response = <<>>
    /\ step_result = <<>>
    /\ unpacked = [raised |-> FALSE, bound |-> {}, obs |-> "", reward |-> "",
                   done |-> FALSE, truncated |-> FALSE, info |-> ""]
    /\ successful = 0
    /\ lafan1_datasets = {}
    /\ steps_survived = 0
    /\ fell_down = FALSE
    /\ arg = <<>>
    /\ ret = <<>>
    /\ files = [expected |-> "none", latest |-> "none"]
    /\ h = [raised |-> FALSE, kbd |-> FALSE, friendly |-> FALSE,
            badUse |-> FALSE, retried |-> FALSE, failed |-> {},
            peak |-> 0, loop |-> "none", listLen |-> 0, attempted |-> 0,
            failedItem |-> FALSE, inOrder |-> TRUE,
            bgLate |-> FALSE, bgSet |-> FALSE,
            recording |-> FALSE, eof |-> FALSE, complete |-> TRUE,
            missed |-> 0]

-----------------------------------------------------------------------------
(* archive/g1_01_record_datasets.py : main                                  *)

rec_datasets_to_record == <<"walk", "squat">>

\* line 25: env = ImitationFactory.make(...), no handler around it;
\* rebinding env releases the handle of the previous item
rec_make ==
    /\ script = "rec"
    /\ pc \in {"main", "make"}
    /\ LET k == IF pc = "main" THEN 1 ELSE i IN
       \E o \in Outcomes :
        /\ i' = k
        /\ h' = LET m == NoteMake(o, "UnitreeG1:" \o rec_datasets_to_record[k],
                                   live)
                    a == Attempt(IF k = 1
                                 THEN LoopStart(m, "rec",
                                                Len(rec_datasets_to_record))
                                 ELSE m, k)
                IN IF o = "exc" THEN Fail(a, k) ELSE a
        /\ env' = IF o = "ok" THEN "live" ELSE env
        /\ live' = IF o = "ok" /\ env # "live" THEN live + 1 ELSE live
        /\ pc' = After(o, "play", "crashed", "crashed")
    /\ UNCHANGED <<script, arg, ret, files, j, env2, bg, step_count,
                   episode_count, flag, answer, response, step_result,
                   unpacked, successful, lafan1_datasets, steps_survived,
                   fell_down>>

\* line 42: env.play_trajectory(..., record=True, recorder_params=...)
rec_play ==
    /\ script = "rec"
    /\ pc = "play"
    /\ \E o \in UseOutcomes(env) :
        /\ h' = LET c == [NoteCall(o, env) EXCEPT !.recording = TRUE]
                IN IF o = "exc" THEN Fail(c, i) ELSE c
        /\ pc' = After(o, IF i < Len(rec_datasets_to_record) THEN "make"
                          ELSE "done", "crashed", "crashed")
        /\ i' = IF o = "ok" /\ i < Len(rec_datasets_to_record) THEN i + 1
                ELSE i
    /\ UNCHANGED <<script, arg, ret, files, j, env, env2, live, bg,
                   step_count, episode_count, flag, answer, response,
                   step_result, unpacked, successful, lafan1_datasets,
                   steps_survived, fell_down>>

-----------------------------------------------------------------------------
(* archive/tutorial_01_your_first_robot.py : main                           *)

tut1_motions == <<"walk", "squat", "jump">>

\* lines 55-72: the first creation, inside try / except Exception
tut1_make ==
    /\ script = "tut1"
    /\ pc = "main"
    /\ \E o \in Outcomes :
        /\ h' = NoteMake(o, "UnitreeG1:walk+squat+jump", live)
        /\ env' = IF o = "ok" THEN "live" ELSE env
        /\ live' = IF o = "ok" THEN live + 1 ELSE live
        /\ pc' = After(o, "create_dataset", "fallback", "crashed")
    /\ UNCHANGED <<script, arg, ret, files, i, j, env2, bg, step_count,
                   episode_count, flag, answer, response, step_result,
                   unpacked, successful, lafan1_datasets, steps_survived,
                   fell_down>>

\* lines 76-80: the fallback creation, inside the except clause, unguarded
tut1_fallback ==
    /\ script = "tut1"
    /\ pc = "fallback"
    /\ \E o \in Outcomes :
        /\ h' = NoteMake(o, "UnitreeG1:walk", live)
        /\ env' = IF o = "ok" THEN "live" ELSE env
        /\ live' = IF o = "ok" THEN live + 1 ELSE live
        /\ pc' = After(o, "create_dataset", "crashed", "crashed")
    /\ UNCHANGED <<script, arg, ret, files, i, j, env2, bg, step_count,
                   episode_count, flag, answer, response, step_result,
                   unpacked, successful, lafan1_datasets, steps_survived,
                   fell_down>>

\* line 94: dataset = env.create_dataset(), unguarded
tut1_create_dataset ==
    /\ script = "tut1"
    /\ pc = "create_dataset"
    /\ \E o \in UseOutcomes(env) :
        /\ h' = NoteCall(o, env)
        /\ pc' = After(o, "motion_make", "crashed", "crashed")
        /\ i' = IF o = "ok" THEN 1 ELSE i
    /\ UNCHANGED <<script, arg, ret, files, j, env, env2, live, bg,
                   step_count, episode_count, flag, answer, response,
                   step_result, unpacked, successful, lafan1_datasets,
                   steps_survived, fell_down>>

\* the for statement of line 141 after item i: next item or leave the loop
tut1_next(k) == IF k < Len(tut1_motions) THEN "motion_make" ELSE "done"

\* tut1_except with break in place of continue
tut1_except_break(k) == "done"

\* lines 172-174: except Exception of the per-item try: continue
tut1_except(k) == tut1_next(k)

\* lines 148-154 and 172-174: motion_env = ImitationFactory.make(...) inside
\* the per-item try; except Exception: continue
tut1_motion_make ==
    /\ script = "tut1"
    /\ pc = "motion_make"
    /\ \E o \in Outcomes :
        /\ h' = LET m == NoteMake(o, "UnitreeG1:" \o tut1_motions[i], live)
                    a == Attempt(IF i = 1
                                 THEN LoopStart(m, "tut1", Len(tut1_motions))
                                 ELSE m, i)
                IN IF o = "exc" THEN Fail(a, i) ELSE a
        /\ env2' = IF o = "ok" THEN "live" ELSE env2
        /\ live' = IF o = "ok" /\ env2 # "live" THEN live + 1 ELSE live
        /\ pc' = After(o, "play", tut1_except(i), "crashed")
        /\ i' = IF o = "exc" /\ i < Len(tut1_motions) THEN i + 1 ELSE i
    /\ UNCHANGED <<script, arg, ret, files, j, env, bg, step_count,
                   episode_count, flag, answer, response, step_result,
                   unpacked, successful, lafan1_datasets, steps_survived,
                   fell_down>>

\* lines 160-174: motion_env.play_trajectory(...) inside the per-item try
tut1_play ==
    /\ script = "tut1"
    /\ pc = "play"
    /\ \E o \in UseOutcomes(env2) :
        /\ h' = IF o = "exc" THEN Fail(NoteCall(o, env2), i)
                ELSE NoteCall(o, env2)
        /\ pc' = After(o, tut1_next(i), tut1_except(i), "crashed")
        /\ i' = IF o # "kbd" /\ i < Len(tut1_motions) THEN i + 1 ELSE i
    /\ UNCHANGED <<script, arg, ret, files, j, env, env2, live, bg,
                   step_count, episode_count, flag, answer, response,
                   step_result, unpacked, successful, lafan1_datasets,
                   steps_survived, fell_down>>

-----------------------------------------------------------------------------
(* quick_background_demo.py : main, set_background                           *)

qbd_backgrounds == <<"0 0 0", "0.05 0.05 0.15", "0.1 0.1 0.1",
                     "0.1 0.02 0.02", "0.08 0.04 0.12", "1 1 1",
                     "0.2 0.3 0.4">>
\* range(60) of line 55
qbd_steps == 60

\* line 41: env = RLFactory.make("UnitreeG1"), no handler
qbd_make ==
    /\ script = "qbd"
    /\ pc = "main"
    /\ \E o \in Outcomes :
        /\ h' = NoteMake(o, "UnitreeG1:", live)
        /\ env' = IF o = "ok" THEN "live" ELSE env
        /\ live' = IF o = "ok" THEN live + 1 ELSE live
        /\ pc' = After(o, "set_background", "crashed", "crashed")
        /\ i' = IF o = "ok" THEN 1 ELSE i
    /\ UNCHANGED <<script, arg, ret, files, j, env2, bg, step_count,
                   episode_count, flag, answer, response, step_result,
                   unpacked, successful, lafan1_datasets, steps_survived,
                   fell_down>>

\* lines 17-20 called from line 46: os.environ[...] = rgb_values
set_background(rgb_values) ==
    /\ bg' = rgb_values
    /\ h' = [h EXCEPT !.bgSet = TRUE, !.bgLate = @ \/ live > 0]

qbd_set_background ==
    /\ script = "qbd"
    /\ pc = "set_background"
    /\ set_background(qbd_backgrounds[i])
    /\ pc' = "reset"
    /\ UNCHANGED <<script, arg, ret, files, i, j, env, env2, live, step_count,
                   episode_count, flag, answer, response, step_result,
                   unpacked, successful, lafan1_datasets, steps_survived,
                   fell_down>>

\* line 49 (and line 62 after a finished episode): obs = env.reset(key)
qbd_reset ==
    /\ script = "qbd"
    /\ pc \in {"reset", "reset_done"}
    /\ \E o \in UseOutcomes(env) :
        /\ h' = NoteCall(o, env)
        /\ pc' = After(o, IF pc = "reset" \/ j < qbd_steps THEN "step"
                          ELSE "after_steps", "crashed", "crashed")
        /\ j' = IF o = "ok" /\ pc = "reset" THEN 0 ELSE j
    /\ UNCHANGED <<script, arg, ret, files, i, env, env2, live, bg,
                   step_count, episode_count, flag, answer, response,
                   step_result, unpacked, successful, lafan1_datasets,
                   steps_survived, fell_down>>

\* lines 55-62: one iteration of the inner loop up to the step's result
qbd_step ==
    /\ script = "qbd"
    /\ pc = "step"
    /\ \E o \in UseOutcomes(env), done \in BOOLEAN :
        /\ o # "ok" => ~done
        /\ h' = NoteStep(o, env)
        /\ flag' = IF o = "ok" THEN done ELSE flag
        /\ j' = IF o = "ok" THEN j + 1 ELSE j
        /\ pc' = After(o, IF done THEN "reset_done"
                          ELSE IF j + 1 < qbd_steps THEN "step"
                          ELSE "after_steps", "crashed", "crashed")
    /\ UNCHANGED <<script, arg, ret, files, i, env, env2, live, bg,
                   step_count, episode_count, answer, response, step_result,
                   unpacked, successful, lafan1_datasets, steps_survived,
                   fell_down>>

\* lines 64-65: input("Press Enter ...") between backgrounds, then the next
\* background; after the last one main returns
qbd_after_steps ==
    /\ script = "qbd"
    /\ pc = "after_steps"
    /\ IF i < Len(qbd_backgrounds)
       THEN \E o \in InputOutcomes :
            /\ h' = NoteInput(o)
            /\ pc' = IF o = "ok" THEN "set_background" ELSE "crashed"
            /\ i' = IF o = "ok" THEN i + 1 ELSE i
       ELSE /\ pc' = "done"
            /\ UNCHANGED <<i, h>>
    /\ UNCHANGED <<script, arg, ret, files, j, env, env2, live, bg,
                   step_count, episode_count, flag, answer, response,
                   step_result, unpacked, successful, lafan1_datasets,
                   steps_survived, fell_down>>

-----------------------------------------------------------------------------
(* lesson_1_3_basic_datasets.py : main, demonstrate_motion                  *)

\* available_basic_motions, line 79: the names of the four motions
l13_motion_list == <<"walk", "run", "squat", "balance">>

\* the for statement of line 222 after item k
l13_next(k) == IF k < Len(l13_motion_list) THEN "make" ELSE "done"

\* l13_except without the handler of lines 117-120: the exception leaves main
l13_except_missing(k) == "crashed"

\* demonstrate_motion, lines 117-120: except Exception returns False to
\* main's loop, which goes on with the next motion
l13_except(k) == l13_next(k)

\* demonstrate_motion, lines 87-95, called from line 227
l13_make ==
    /\ script = "l13"
    /\ pc \in {"main", "make"}
    /\ LET k == IF pc = "main" THEN 1 ELSE i IN
       \E o \in Outcomes :
        /\ h' = LET m == NoteMake(o, "UnitreeG1:" \o l13_motion_list[k], live)
                    a == Attempt(IF k = 1
                                 THEN LoopStart(m, "l13", Len(l13_motion_list))
                                 ELSE m, k)
                IN IF o = "exc" THEN Fail(a, k) ELSE a
        /\ env' = IF o = "ok" THEN "live" ELSE env
        /\ live' = IF o = "ok" THEN live + 1 ELSE live
        /\ pc' = After(o, "play", l13_except(k), "crashed")
        /\ i' = IF o = "exc" /\ k < Len(l13_motion_list) THEN k + 1 ELSE k
    /\ UNCHANGED <<script, arg, ret, files, j, env2, bg, step_count,
                   episode_count, flag, answer, response, step_result,
                   unpacked, successful, lafan1_datasets, steps_survived,
                   fell_down>>

\* demonstrate_motion, lines 105-120: play_trajectory, del env, return True;
\* on either path env is released when the function is left
l13_play ==
    /\ script = "l13"
    /\ pc = "play"
    /\ \E o \in UseOutcomes(env) :
        /\ h' = IF o = "exc" THEN Fail(NoteCall(o, env), i)
                ELSE NoteCall(o, env)
        /\ env' = "unbound"
        /\ live' = live - 1
        /\ successful' = IF o = "ok" THEN successful + 1 ELSE successful
        /\ pc' = After(o, l13_next(i), l13_except(i), "crashed")
        /\ i' = IF o # "kbd" /\ i < Len(l13_motion_list) THEN i + 1 ELSE i
    /\ UNCHANGED <<script, arg, ret, files, j, env2, bg, step_count,
                   episode_count, flag, answer, response, step_result,
                   unpacked, lafan1_datasets, steps_survived, fell_down>>

-----------------------------------------------------------------------------
(* archive/g1_03_interactive_control.py : main                              *)

\* the 'dataset' entries of motion_demos, lines 43-65
g103_motion_demos == <<"stand", "walk", "squat">>

\* lines 96-99: the one except Exception of main, around the whole body; it
\* prints the traceback and main returns
g103_except == "done"

\* lines 22-28: env = ImitationFactory.make(..., ["walk","squat","run"])
g103_make ==
    /\ script = "g103"
    /\ pc = "main"
    /\ \E o \in Outcomes :
        /\ h' = NoteMake(o, "UnitreeG1:walk+squat+run", live)
        /\ env' = IF o = "ok" THEN "live" ELSE env
        /\ live' = IF o = "ok" THEN live + 1 ELSE live
        /\ pc' = After(o, "create_dataset", g103_except, "crashed")
    /\ UNCHANGED <<script, arg, ret, files, i, j, env2, bg, step_count,
                   episode_count, flag, answer, response, step_result,
                   unpacked, successful, lafan1_datasets, steps_survived,
                   fell_down>>

\* line 34: dataset = env.create_dataset()
g103_create_dataset ==
    /\ script = "g103"
    /\ pc = "create_dataset"
    /\ \E o \in UseOutcomes(env) :
        /\ h' = NoteCall(o, env)
        /\ pc' = After(o, "demo_make", g103_except, "crashed")
        /\ i' = IF o = "ok" THEN 1 ELSE i
    /\ UNCHANGED <<script, arg, ret, files, j, env, env2, live, bg,
                   step_count, episode_count, flag, answer, response,
                   step_result, unpacked, successful, lafan1_datasets,
                   steps_survived, fell_down>>

\* lines 73-75: demo_env = ImitationFactory.make(...) for demo i; the name
\* demo_env keeps the previous demo's handle until it is rebound
g103_demo_make ==
    /\ script = "g103"
    /\ pc = "demo_make"
    /\ \E o \in Outcomes :
        /\ h' = LET m == NoteMake(o, "UnitreeG1:" \o g103_motion_demos[i],
                                   live)
                    a == Attempt(IF i = 1
                                 THEN LoopStart(m, "g103",
                                                Len(g103_motion_demos))
                                 ELSE m, i)
                IN IF o = "exc" THEN Fail(a, i) ELSE a
        /\ env2' = IF o = "ok" THEN "live" ELSE env2
        /\ live' = IF o = "ok" /\ env2 # "live" THEN live + 1 ELSE live
        /\ pc' = After(o, "play", g103_except, "crashed")
    /\ UNCHANGED <<script, arg, ret, files, i, j, env, bg, step_count,
                   episode_count, flag, answer, response, step_result,
                   unpacked, successful, lafan1_datasets, steps_survived,
                   fell_down>>

\* lines 80-89: demo_env.play_trajectory(...), then the next demo
g103_play ==
    /\ script = "g103"
    /\ pc = "play"
    /\ \E o \in UseOutcomes(env2) :
        /\ h' = IF o = "exc" THEN Fail(NoteCall(o, env2), i)
                ELSE NoteCall(o, env2)
        /\ pc' = After(o, IF i < Len(g103_motion_demos) THEN "demo_make"
                          ELSE "done", g103_except, "crashed")
        /\ i' = IF o = "ok" /\ i < Len(g103_motion_demos) THEN i + 1 ELSE i
    /\ UNCHANGED <<script, arg, ret, files, j, env, env2, live, bg,
                   step_count, episode_count, flag, answer, response,
                   step_result, unpacked, successful, lafan1_datasets,
                   steps_survived, fell_down>>

-----------------------------------------------------------------------------
(* archive/g1_01_basic_datasets.py : main                                   *)

\* line 53
g101_datasets_to_demo == <<"walk", "squat">>

\* lines 84-93: except Exception of the outer try leads to the fallback
g101_except == "fallback_make"

\* lines 33-38: env = ImitationFactory.make(..., ["walk", "squat"])
g101_make ==
    /\ script = "g101"
    /\ pc = "main"
    /\ \E o \in Outcomes :
        /\ h' = NoteMake(o, "UnitreeG1:walk+squat", live)
        /\ env' = IF o = "ok" THEN "live" ELSE env
        /\ live' = IF o = "ok" THEN live + 1 ELSE live
        /\ pc' = After(o, "create_dataset", g101_except, "crashed")
    /\ UNCHANGED <<script, arg, ret, files, i, j, env2, bg, step_count,
                   episode_count, flag, answer, response, step_result,
                   unpacked, successful, lafan1_datasets, steps_survived,
                   fell_down>>

\* line 45: dataset = env.create_dataset()
g101_create_dataset ==
    /\ script = "g101"
    /\ pc = "create_dataset"
    /\ \E o \in UseOutcomes(env) :
        /\ h' = NoteCall(o, env)
        /\ pc' = After(o, "single_make", g101_except, "crashed")
        /\ i' = IF o = "ok" THEN 1 ELSE i
    /\ UNCHANGED <<script, arg, ret, files, j, env, env2, live, bg,
                   step_count, episode_count, flag, answer, response,
                   step_result, unpacked, successful, lafan1_datasets,
                   steps_survived, fell_down>>

\* lines 60-62: single_env = ImitationFactory.make(..., [dataset_name])
g101_single_make ==
    /\ script = "g101"
    /\ pc = "single_make"
    /\ \E o \in Outcomes :
        /\ h' = LET m == NoteMake(o, "UnitreeG1:" \o g101_datasets_to_demo[i],
                                   live)
                    a == Attempt(IF i = 1
                                 THEN LoopStart(m, "g101",
                                                Len(g101_datasets_to_demo))
                                 ELSE m, i)
                IN IF o = "exc" THEN Fail(a, i) ELSE a
        /\ env2' = IF o = "ok" THEN "live" ELSE env2
        /\ live' = IF o = "ok" /\ env2 # "live" THEN live + 1 ELSE live
        /\ pc' = After(o, "play", g101_except, "crashed")
    /\ UNCHANGED <<script, arg, ret, files, i, j, env, bg, step_count,
                   episode_count, flag, answer, response, step_result,
                   unpacked, successful, lafan1_datasets, steps_survived,
                   fell_down>>

\* lines 69-79: single_env.play_trajectory(...), then the next dataset
g101_play ==
    /\ script = "g101"
    /\ pc = "play"
    /\ \E o \in UseOutcomes(env2) :
        /\ h' = IF o = "exc" THEN Fail(NoteCall(o, env2), i)
                ELSE NoteCall(o, env2)
        /\ pc' = After(o, IF i < Len(g101_datasets_to_demo)
                          THEN "single_make" ELSE "done",
                       g101_except, "crashed")
        /\ i' = IF o = "ok" /\ i < Len(g101_datasets_to_demo) THEN i + 1
                ELSE i
    /\ UNCHANGED <<script, arg, ret, files, j, env, env2, live, bg,
                   step_count, episode_count, flag, answer, response,
                   step_result, unpacked, successful, lafan1_datasets,
                   steps_survived, fell_down>>

\* lines 93-95: the fallback creation env = ImitationFactory.make("UnitreeG1",
\* DefaultDatasetConf(["walk"])) inside its own try; except prints (100-101)
g101_fallback_make ==
    /\ script = "g101"
    /\ pc = "fallback_make"
    /\ \E o \in Outcomes :
        /\ h' = NoteMake(o, "UnitreeG1:walk", live)
        /\ env' = IF o = "ok" THEN "live" ELSE env
        /\ live' = IF o = "ok" /\ env # "live" THEN live + 1 ELSE live
        /\ pc' = After(o, "fallback_play", "done", "crashed")
    /\ UNCHANGED <<script, arg, ret, files, i, j, env2, bg, step_count,
                   episode_count, flag, answer, response, step_result,
                   unpacked, successful, lafan1_datasets, steps_survived,
                   fell_down>>

\* line 98: env.play_trajectory(n_episodes=2, ...) of the fallback
g101_fallback_play ==
    /\ script = "g101"
    /\ pc = "fallback_play"
    /\ \E o \in UseOutcomes(env) :
        /\ h' = NoteCall(o, env)
        /\ pc' = After(o, "done", "done", "crashed")
    /\ UNCHANGED <<script, arg, ret, files, i, j, env, env2, live, bg,
                   step_count, episode_count, flag, answer, response,
                   step_result, unpacked, successful, lafan1_datasets,
                   steps_survived, fell_down>>

-----------------------------------------------------------------------------
(* test_g1_locomujoco.py : main                                             *)

\* line 29
tg1_tasks == <<"stand", "stepinplace", "walk_fast", "walk_slow", "idle">>
\* line 68
max_steps_per_episode == 1000

\* lines 119-122: except Exception around the while loop: message, traceback
tg1_loop_except == "done"
\* tg1_loop_interrupt without the except KeyboardInterrupt clause
tg1_loop_interrupt_missing == "crashed"

\* lines 117-118: except KeyboardInterrupt around the while loop
tg1_loop_interrupt == "done"

\* lines 14-26: the first creation, task "walk"
tg1_make ==
    /\ script = "tg1"
    /\ pc = "main"
    /\ \E o \in Outcomes :
        /\ h' = NoteMake(o, "UnitreeG1:walk", live)
        /\ env' = IF o = "ok" THEN "live" ELSE env
        /\ arg' = IF o = "ok" THEN "UnitreeG1:walk" ELSE arg
        /\ live' = IF o = "ok" THEN live + 1 ELSE live
        /\ pc' = After(o, "reset", "task_make", "crashed")
        /\ i' = IF o = "exc" THEN 1 ELSE i
    /\ UNCHANGED <<script, ret, files, j, env2, bg, step_count,
                   episode_count, flag, answer, response, step_result,
                   unpacked, successful, lafan1_datasets, steps_survived,
                   fell_down>>

\* lines 29-39: for task in [...]: try make, break; except: continue
tg1_task_make ==
    /\ script = "tg1"
    /\ pc = "task_make"
    /\ \E o \in Outcomes :
        /\ h' = NoteMake(o, "UnitreeG1:" \o tg1_tasks[i], live)
        /\ env' = IF o = "ok" THEN "live" ELSE env
        /\ arg' = IF o = "ok" THEN "UnitreeG1:" \o tg1_tasks[i] ELSE arg
        /\ live' = IF o = "ok" THEN live + 1 ELSE live
        /\ pc' = After(o, "reset",
                       IF i < Len(tg1_tasks) THEN "task_make"
                       ELSE "final_make", "crashed")
        /\ i' = IF o = "exc" /\ i < Len(tg1_tasks) THEN i + 1 ELSE i
    /\ UNCHANGED <<script, ret, files, j, env2, bg, step_count,
                   episode_count, flag, answer, response, step_result,
                   unpacked, successful, lafan1_datasets, steps_survived,
                   fell_down>>

\* lines 40-50: the for's else: creation without a task; on failure return
tg1_final_make ==
    /\ script = "tg1"
    /\ pc = "final_make"
    /\ \E o \in Outcomes :
        /\ h' = NoteMake(o, "UnitreeG1:", live)
        /\ env' = IF o = "ok" THEN "live" ELSE env
        /\ arg' = IF o = "ok" THEN "UnitreeG1:" ELSE arg
        /\ live' = IF o = "ok" THEN live + 1 ELSE live
        /\ pc' = After(o, "reset", "done", "crashed")
    /\ UNCHANGED <<script, ret, files, i, j, env2, bg, step_count,
                   episode_count, flag, answer, response, step_result,
                   unpacked, successful, lafan1_datasets, steps_survived,
                   fell_down>>

\* line 57: initial_state = env.reset(), outside every try
tg1_reset ==
    /\ script = "tg1"
    /\ pc = "reset"
    /\ \E o \in UseOutcomes(env) :
        /\ h' = NoteCall(o, env)
        /\ pc' = After(o, "render", "crashed", "crashed")
    /\ UNCHANGED <<script, arg, ret, files, i, j, env, env2, live, bg,
                   step_count, episode_count, flag, answer, response,
                   step_result, unpacked, successful, lafan1_datasets,
                   steps_survived, fell_down>>

\* line 61: env.render(), outside every try; then lines 66-68
tg1_render ==
    /\ script = "tg1"
    /\ pc = "render"
    /\ \E o \in UseOutcomes(env) :
        /\ h' = NoteCall(o, env)
        /\ pc' = After(o, "loop", "crashed", "crashed")
        /\ step_count' = IF o = "ok" THEN 0 ELSE step_count
        /\ episode_count' = IF o = "ok" THEN 0 ELSE episode_count
    /\ UNCHANGED <<script, arg, ret, files, i, j, env, env2, live, bg, flag,
                   answer, response, step_result, unpacked, successful,
                   lafan1_datasets, steps_survived, fell_down>>

\* tg1_reset_count when the reset leaves the counter as it was
tg1_reset_count_kept(n) == n

\* line 75: step_count = 0 after the reset, whatever it was
tg1_reset_count(n) == 0

\* tg1_force_reset when an ended episode is counted on like any other step
tg1_force_reset_missing(n) == n + 1

\* line 104: step_count = max_steps_per_episode  # Force reset
tg1_force_reset(n) == max_steps_per_episode

\* lines 72-77: at the top of the while body, a finished episode is reset;
\* episode_count counts the episodes of a run up to MaxEpisodes
tg1_episode_reset ==
    /\ script = "tg1"
    /\ pc = "loop"
    /\ step_count >= max_steps_per_episode
    /\ \E o \in UseOutcomes(env) :
        /\ h' = [NoteCall(o, env) EXCEPT !.friendly = @ \/ o = "kbd"]
        /\ pc' = After(o, "step", tg1_loop_except, tg1_loop_interrupt)
        /\ step_count' = IF o = "ok" THEN tg1_reset_count(step_count)
                         ELSE step_count
        /\ episode_count' = IF o = "ok" /\ episode_count < MaxEpisodes
                            THEN episode_count + 1 ELSE episode_count
    /\ UNCHANGED <<script, arg, ret, files, i, j, env, env2, live, bg, flag,
                   answer, response, step_result, unpacked, successful,
                   lafan1_datasets, steps_survived, fell_down>>

\* lines 81-92: choose the action and step
tg1_step ==
    /\ script = "tg1"
    /\ pc = "step" \/ (pc = "loop" /\ step_count < max_steps_per_episode)
    /\ \E o \in UseOutcomes(env), absorbing \in BOOLEAN, done \in BOOLEAN :
        /\ o # "ok" => ~absorbing /\ ~done
        /\ h' = [NoteStep(o, env) EXCEPT !.friendly = @ \/ o = "kbd"]
        /\ flag' = IF o = "ok" THEN absorbing \/ done ELSE flag
        /\ pc' = After(o, "loop_render", tg1_loop_except, tg1_loop_interrupt)
    /\ UNCHANGED <<script, arg, ret, files, i, j, env, env2, live, bg,
                   step_count, episode_count, answer, response, step_result,
                   unpacked, successful, lafan1_datasets, steps_survived,
                   fell_down>>

\* lines 95-115: render, then either force the reset of the ended episode
\* (step_count = max_steps_per_episode; continue) or count the step
tg1_loop_render ==
    /\ script = "tg1"
    /\ pc = "loop_render"
    /\ \E o \in UseOutcomes(env) :
        /\ h' = [NoteCall(o, env) EXCEPT !.friendly = @ \/ o = "kbd"]
        /\ pc' = After(o, "loop", tg1_loop_except, tg1_loop_interrupt)
        /\ step_count' = IF o # "ok" THEN step_count
                         ELSE IF flag THEN tg1_force_reset(step_count)
                         ELSE step_count + 1
        /\ flag' = FALSE
    /\ UNCHANGED <<script, arg, ret, files, i, j, env, env2, live, bg,
                   episode_count, answer, response, step_result, unpacked,
                   successful, lafan1_datasets, steps_survived, fell_down>>

-----------------------------------------------------------------------------
(* The tuples env.step returns, and their unpacking by length                *)

\* the lengths of step() results the scripts branch on
StepArities == {3, 4, 5}

\* (observation, reward, terminated[, truncated][, info])
StepResult(n, d, t) ==
    IF n = 5 THEN <<"obs", "reward", d, t, "info">>
    ELSE IF n = 4 THEN <<"obs", "reward", d, "info">>
    ELSE <<"obs", "reward", d>>

\* no name bound yet
NoUnpack == [raised |-> FALSE, bound |-> {}, obs |-> "", reward |-> "",
             done |-> FALSE, truncated |-> FALSE, info |-> ""]

\* lesson_1_1_quick_test.py, lines 108-112: 5 names, else 4 names; a tuple
\* assignment of the wrong length raises ValueError and binds nothing
l11_unpack(prev, result) ==
    IF Len(result) = 5
    THEN [raised |-> FALSE,
          bound |-> {"obs", "reward", "done", "truncated", "info"},
          obs |-> result[1], reward |-> result[2], done |-> result[3],
          truncated |-> result[4], info |-> result[5]]
    ELSE IF Len(result) = 4
    THEN [raised |-> FALSE,
          bound |-> {"obs", "reward", "done", "truncated", "info"},
          obs |-> result[1], reward |-> result[2], done |-> result[3],
          truncated |-> FALSE, info |-> result[4]]
    ELSE [prev EXCEPT !.raised = TRUE]

-----------------------------------------------------------------------------
(* lesson_1_1_quick_test.py : main, check_system, create_basic_robot,       *)
(* test_basic_movement                                                      *)

\* range(150) of line 102
l11_steps == 150

\* lines 122-124: except Exception of test_basic_movement; back in main
l11_except == "cleanup"

\* lines 28-50 and 171-173: main returns when the imports fail
l11_check_system ==
    /\ script = "l11"
    /\ pc = "main"
    /\ \E ok \in BOOLEAN : pc' = IF ok THEN "create" ELSE "done"
    /\ UNCHANGED <<script, arg, ret, files, i, j, env, env2, live, bg,
                   step_count, episode_count, flag, answer, response,
                   step_result, unpacked, successful, lafan1_datasets,
                   steps_survived, fell_down, h>>

\* lines 58-73: env = RLFactory.make("UnitreeG1"); on failure return None
l11_create_basic_robot ==
    /\ script = "l11"
    /\ pc = "create"
    /\ \E o \in Outcomes :
        /\ h' = NoteMake(o, "UnitreeG1:", live)
        /\ env' = CASE o = "ok" -> "live" [] o = "exc" -> "none"
                    [] OTHER -> env
        /\ live' = IF o = "ok" THEN live + 1 ELSE live
        /\ pc' = After(o, "movement", "movement", "crashed")
    /\ UNCHANGED <<script, arg, ret, files, i, j, env2, bg, step_count,
                   episode_count, flag, answer, response, step_result,
                   unpacked, successful, lafan1_datasets, steps_survived,
                   fell_down>>

\* l11_skip without the test of lines 78-80
l11_skip_never(binding) == FALSE

\* lines 78-80: without a robot the movement test is skipped
l11_skip(binding) == binding = "none"

\* lines 78-96: test_basic_movement up to obs = env.reset(key)
l11_test_basic_movement ==
    /\ script = "l11"
    /\ pc = "movement"
    /\ IF l11_skip(env)
       THEN /\ pc' = "cleanup"
            /\ UNCHANGED <<j, h>>
       ELSE \E o \in UseOutcomes(env) :
            /\ h' = NoteCall(o, env)
            /\ pc' = After(o, "step", l11_except, "crashed")
            /\ j' = IF o = "ok" THEN 0 ELSE j
    /\ UNCHANGED <<script, arg, ret, files, i, env, env2, live, bg,
                   step_count, episode_count, flag, answer, response,
                   step_result, unpacked, successful, lafan1_datasets,
                   steps_survived, fell_down>>

\* lines 102-115: one iteration up to the test of done
l11_step ==
    /\ script = "l11"
    /\ pc = "step"
    /\ \E o \in UseOutcomes(env), n \in StepArities, d \in BOOLEAN,
          t \in BOOLEAN :
        /\ o # "ok" => n = 5 /\ ~d /\ ~t
        /\ n < 5 => ~t
        /\ LET u == IF o = "ok"
                    THEN l11_unpack(unpacked, StepResult(n, d, t))
                    ELSE unpacked
           IN /\ h' = NoteStep(o, env)
              /\ step_result' = IF o = "ok" THEN StepResult(n, d, t)
                                ELSE step_result
              /\ unpacked' = u
              /\ j' = IF o = "ok" /\ ~u.raised THEN j + 1 ELSE j
              /\ pc' = IF o = "ok" /\ u.raised THEN l11_except
                       ELSE After(o, IF u.done THEN "reset_done"
                                     ELSE IF j + 1 < l11_steps THEN "step"
                                     ELSE "cleanup", l11_except, "crashed")
    /\ UNCHANGED <<script, arg, ret, files, i, env, env2, live, bg,
                   step_count, episode_count, flag, answer, response,
                   successful, lafan1_datasets, steps_survived, fell_down>>

\* lines 115-117: obs = env.reset(key) after a finished episode
l11_reset_done ==
    /\ script = "l11"
    /\ pc = "reset_done"
    /\ \E o \in UseOutcomes(env) :
        /\ h' = NoteCall(o, env)
        /\ pc' = After(o, IF j < l11_steps THEN "step" ELSE "cleanup",
                       l11_except, "crashed")
    /\ UNCHANGED <<script, arg, ret, files, i, j, env, env2, live, bg,
                   step_count, episode_count, flag, answer, response,
                   step_result, unpacked, successful, lafan1_datasets,
                   steps_survived, fell_down>>

\* lines 177-182: if robot is not None: del robot
l11_cleanup ==
    /\ script = "l11"
    /\ pc = "cleanup"
    /\ env' = IF env = "live" THEN "unbound" ELSE env
    /\ live' = IF env = "live" THEN live - 1 ELSE live
    /\ pc' = "done"
    /\ UNCHANGED <<script, arg, ret, files, i, j, env2, bg, step_count,
                   episode_count, flag, answer, response, step_result,
                   unpacked, successful, lafan1_datasets, steps_survived,
                   fell_down, h>>

-----------------------------------------------------------------------------
(* background_color_guide.py : main, method_1_environment_variable,         *)
(* method_4_direct_mujoco, create_black_background_example                  *)

\* range(90) of line 156
bcg_steps == 90

\* lines 16-28, called from line 175
bcg_method_1_environment_variable ==
    /\ script = "bcg"
    /\ pc = "main"
    /\ set_background("0 0 0")
    /\ pc' = "method_4"
    /\ UNCHANGED <<script, arg, ret, files, i, j, env, env2, live, step_count,
                   episode_count, flag, answer, response, step_result,
                   unpacked, successful, lafan1_datasets, steps_survived,
                   fell_down>>

\* lines 105-136: import mujoco, make, reset, all inside one try; env is a
\* local of method_4_direct_mujoco and is released when it returns
bcg_method_4_make ==
    /\ script = "bcg"
    /\ pc = "method_4"
    /\ \E imported \in BOOLEAN, o \in Outcomes :
        /\ ~imported => o = "exc"
        /\ h' = IF imported THEN NoteMake(o, "UnitreeG1:", live) ELSE h
        /\ env' = IF o = "ok" THEN "live" ELSE env
        /\ live' = IF o = "ok" THEN live + 1 ELSE live
        /\ pc' = After(o, "method_4_reset", "example", "crashed")
    /\ UNCHANGED <<script, arg, ret, files, i, j, env2, bg, step_count,
                   episode_count, flag, answer, response, step_result,
                   unpacked, successful, lafan1_datasets, steps_survived,
                   fell_down>>

bcg_method_4_reset ==
    /\ script = "bcg"
    /\ pc = "method_4_reset"
    /\ \E o \in UseOutcomes(env) :
        /\ h' = NoteCall(o, env)
        /\ env' = "unbound"
        /\ live' = live - 1
        /\ pc' = After(o, "example", "example", "crashed")
    /\ UNCHANGED <<script, arg, ret, files, i, j, env2, bg, step_count,
                   episode_count, flag, answer, response, step_result,
                   unpacked, successful, lafan1_datasets, steps_survived,
                   fell_down>>

\* line 145: os.environ['MUJOCO_GL_BACKGROUND'] = '0 0 0'
bcg_example_background ==
    /\ script = "bcg"
    /\ pc = "example"
    /\ set_background("0 0 0")
    /\ pc' = "example_make"
    /\ UNCHANGED <<script, arg, ret, files, i, j, env, env2, live, step_count,
                   episode_count, flag, answer, response, step_result,
                   unpacked, successful, lafan1_datasets, steps_survived,
                   fell_down>>

\* line 148: env = RLFactory.make("UnitreeG1"), no handler
bcg_example_make ==
    /\ script = "bcg"
    /\ pc = "example_make"
    /\ \E o \in Outcomes :
        /\ h' = NoteMake(o, "UnitreeG1:", live)
        /\ env' = IF o = "ok" THEN "live" ELSE env
        /\ live' = IF o = "ok" THEN live + 1 ELSE live
        /\ pc' = After(o, "reset", "crashed", "crashed")
    /\ UNCHANGED <<script, arg, ret, files, i, j, env2, bg, step_count,
                   episode_count, flag, answer, response, step_result,
                   unpacked, successful, lafan1_datasets, steps_survived,
                   fell_down>>

\* line 150 (and line 162 after a finished episode): obs = env.reset(key)
bcg_reset ==
    /\ script = "bcg"
    /\ pc \in {"reset", "reset_done"}
    /\ \E o \in UseOutcomes(env) :
        /\ h' = NoteCall(o, env)
        /\ pc' = After(o, IF pc = "reset" \/ j < bcg_steps THEN "step"
                          ELSE "done", "crashed", "crashed")
        /\ j' = IF o = "ok" /\ pc = "reset" THEN 0 ELSE j
    /\ UNCHANGED <<script, arg, ret, files, i, env, env2, live, bg,
                   step_count, episode_count, flag, answer, response,
                   step_result, unpacked, successful, lafan1_datasets,
                   steps_survived, fell_down>>

\* lines 156-162: one iteration of the loop up to the test of done
bcg_step ==
    /\ script = "bcg"
    /\ pc = "step"
    /\ \E o \in UseOutcomes(env), done \in BOOLEAN :
        /\ o # "ok" => ~done
        /\ h' = NoteStep(o, env)
        /\ flag' = IF o = "ok" THEN done ELSE flag
        /\ j' = IF o = "ok" THEN j + 1 ELSE j
        /\ pc' = After(o, IF done THEN "reset_done"
                          ELSE IF j + 1 < bcg_steps THEN "step"
                          ELSE "done", "crashed", "crashed")
    /\ UNCHANGED <<script, arg, ret, files, i, env, env2, live, bg,
                   step_count, episode_count, answer, response, step_result,
                   unpacked, successful, lafan1_datasets, steps_survived,
                   fell_down>>

-----------------------------------------------------------------------------
(* Lines typed at a prompt: sequences of characters                         *)

Digits == <<"0", "1", "2", "3", "4", "5", "6", "7", "8", "9">>

IsDigit(c) == \E d \in 1..10 : Digits[d] = c

DigitValue(c) == (CHOOSE d \in 1..10 : Digits[d] = c) - 1

\* str.lower() on the characters that occur
Lower(s) ==
    [n \in 1..Len(s) |->
        CASE s[n] = "Y" -> "y" [] s[n] = "E" -> "e" [] s[n] = "S" -> "s"
          [] s[n] = "N" -> "n" [] s[n] = "O" -> "o" [] s[n] = "Q" -> "q"
          [] s[n] = "H" -> "h" [] s[n] = "W" -> "w" [] s[n] = "X" -> "x"
          [] OTHER -> s[n]]

RECURSIVE LStrip(_)
LStrip(s) == IF s # <<>> /\ Head(s) = " " THEN LStrip(Tail(s)) ELSE s

RECURSIVE RStrip(_)
RStrip(s) ==
    IF s # <<>> /\ s[Len(s)] = " " THEN RStrip(SubSeq(s, 1, Len(s) - 1))
    ELSE s

\* str.strip()
Strip(s) == RStrip(LStrip(s))

\* int(s) succeeds on a non-empty run of digits; otherwise ValueError
IsInt(s) == s # <<>> /\ \A n \in 1..Len(s) : IsDigit(s[n])

RECURSIVE ParseInt(_)
ParseInt(s) ==
    IF s = <<>> THEN 0
    ELSE 10 * ParseInt(SubSeq(s, 1, Len(s) - 1)) + DigitValue(s[Len(s)])

-----------------------------------------------------------------------------
(* archive/g1_slow_motion_viewer.py : main, play_single_motion              *)

\* lines 16-23
smv_default_datasets ==
    <<"walk", "squat", "stand", "walk_slow", "walk_fast", "jump">>
\* lines 25-30
smv_lafan1_datasets ==
    <<"walk1_subject1", "walk1_subject2", "dance2_subject4", "run1_subject1">>

\* the number of the entry ALL (lines 40 and 108)
smv_all == Len(smv_default_datasets) + Len(smv_lafan1_datasets) + 1

\* lines the user may type at the two prompts
smv_lines == {<<"q">>, <<" ", "Q">>, <<"q", "u", "i", "t">>, <<"3">>,
              <<"9">>, <<"1", "1">>, <<"1", "2">>, <<"x">>, <<>>,
              <<"y">>, <<"Y", " ">>, <<"n">>}

\* lines 154-155: except Exception of the menu loop: message, next round
smv_except == "menu"
\* lines 151-153: except KeyboardInterrupt: message, break
smv_interrupt == "done"
\* lines 82-84 and 119-120: play_single_motion returns False; the caller
\* goes on with the next dataset of ALL, or back to the menu
smv_after_item(all, k) == IF all /\ k < smv_all - 1 THEN "play" ELSE "menu"

\* lines 99-147: one answer at the menu prompt
smv_prompt ==
    /\ script = "smv"
    /\ pc \in {"main", "menu"}
    /\ \E o \in InputOutcomes, line \in smv_lines :
        /\ o # "ok" => line = <<>>
        /\ LET choice == Lower(Strip(line))
               choice_num == IF IsInt(choice) THEN ParseInt(choice) ELSE 0
           IN /\ answer' = IF o = "ok" THEN line ELSE answer
              /\ response' = IF o = "ok" THEN choice ELSE response
              /\ h' = [NoteInput(o) EXCEPT !.friendly = @ \/ o = "kbd"]
              /\ pc' = CASE o = "eof" -> smv_except
                         [] o = "kbd" -> smv_interrupt
                         [] choice \in {<<"q">>, <<"q", "u", "i", "t">>}
                              -> "done"
                         [] ~IsInt(choice) -> "menu"
                         [] choice_num = smv_all -> "proceed"
                         [] choice_num \in 1..(smv_all - 1) -> "play"
                         [] OTHER -> "menu"
              /\ i' = IF o = "ok" /\ choice_num \in 1..(smv_all - 1)
                      THEN choice_num ELSE 0
        /\ flag' = FALSE
    /\ UNCHANGED <<script, arg, ret, files, j, env, env2, live, bg,
                   step_count, episode_count, step_result, unpacked,
                   successful, lafan1_datasets, steps_survived, fell_down>>

\* lines 109-113: ALL was chosen; proceed = input("Continue? (y/n): ")
smv_proceed ==
    /\ script = "smv"
    /\ pc = "proceed"
    /\ \E o \in InputOutcomes, line \in smv_lines :
        /\ o # "ok" => line = <<>>
        /\ LET proceed == Lower(Strip(line))
           IN /\ answer' = IF o = "ok" THEN line ELSE answer
              /\ response' = IF o = "ok" THEN proceed ELSE response
              /\ h' = [NoteInput(o) EXCEPT !.friendly = @ \/ o = "kbd"]
              /\ pc' = CASE o = "eof" -> smv_except
                         [] o = "kbd" -> smv_interrupt
                         [] proceed # <<"y">> -> "menu"
                         [] OTHER -> "play"
              /\ i' = IF o = "ok" /\ proceed = <<"y">> THEN 1 ELSE 0
              /\ flag' = (o = "ok" /\ proceed = <<"y">>)
    /\ UNCHANGED <<script, arg, ret, files, j, env, env2, live, bg,
                   step_count, episode_count, step_result, unpacked,
                   successful, lafan1_datasets, steps_survived, fell_down>>

\* lines 50-59: play_single_motion creates the environment of dataset i
smv_make ==
    /\ script = "smv"
    /\ pc = "play"
    /\ \E o \in Outcomes :
        /\ h' = LET nd == Len(smv_default_datasets)
                    m == IF i <= nd
                         THEN NoteMake(o, "UnitreeG1:"
                                          \o smv_default_datasets[i], live)
                         ELSE NoteMake(o, "UnitreeG1:lafan1:"
                                          \o smv_lafan1_datasets[i - nd],
                                       live)
                    l == IF ~flag THEN m
                         ELSE IF i <= nd
                         THEN Item(m, "smv_default", nd, i, o)
                         ELSE Item(m, "smv_lafan1",
                                   Len(smv_lafan1_datasets), i - nd, o)
                IN [l EXCEPT !.friendly = @ \/ o = "kbd"]
        /\ env' = IF o = "ok" THEN "live" ELSE env
        /\ live' = IF o = "ok" THEN live + 1 ELSE live
        /\ pc' = After(o, "playing", smv_after_item(flag, i), smv_interrupt)
        /\ i' = CASE o = "ok" -> i
                  [] o = "exc" /\ smv_after_item(flag, i) = "play" -> i + 1
                  [] OTHER -> 0
        /\ flag' = IF o = "kbd" THEN FALSE ELSE flag
    /\ UNCHANGED <<script, arg, ret, files, j, env2, bg, step_count,
                   episode_count, answer, response, step_result, unpacked,
                   successful, lafan1_datasets, steps_survived, fell_down>>

\* lines 74-86: play_trajectory; the handle is local to play_single_motion
\* and is released when the function is left
smv_play ==
    /\ script = "smv"
    /\ pc = "playing"
    /\ \E o \in UseOutcomes(env) :
        /\ h' = LET c == [NoteCall(o, env) EXCEPT
                              !.friendly = @ \/ o = "kbd"]
                IN IF o = "exc" /\ flag THEN Fail(c, h.attempted) ELSE c
        /\ env' = "unbound"
        /\ live' = live - 1
        /\ pc' = After(o, smv_after_item(flag, i), smv_after_item(flag, i),
                       smv_interrupt)
        /\ i' = IF o # "kbd" /\ smv_after_item(flag, i) = "play" THEN i + 1
                ELSE 0
        /\ flag' = IF o = "kbd" THEN FALSE ELSE flag
    /\ UNCHANGED <<script, arg, ret, files, j, env2, bg, step_count,
                   episode_count, answer, response, step_result, unpacked,
                   successful, lafan1_datasets, steps_survived, fell_down>>

-----------------------------------------------------------------------------
(* lesson_1_5_interactive_control.py : main, set_background_color,          *)
(* demonstrate_control_types, interactive_control_session                   *)

\* line 296 sets max_steps = 50000; the loop is explored with a small
\* limit that, like 50000, is not a multiple of the 30 frames of a command
max_steps == 45
\* range(30) of line 325
l15_frames == 30
\* the control_types of lines 205-223
l15_control_types == 3

\* lines 26-34: colors.get(color_name, colors["black"])
l15_colors(color_name) ==
    CASE color_name = "black" -> "0 0 0"
      [] color_name = "dark_blue" -> "0.1 0.1 0.2"
      [] color_name = "dark_gray" -> "0.2 0.2 0.2"
      [] color_name = "white" -> "1 1 1"
      [] color_name = "default" -> "0.2 0.3 0.4"
      [] OTHER -> "0 0 0"

\* lines 24-36
set_background_color(color_name) == set_background(l15_colors(color_name))

\* lines the user may type at the prompt of line 301
l15_lines == {<<"q", "u", "i", "t">>, <<" ", "Q">>, <<"h", "e", "l", "p">>,
              <<"0">>, <<"w">>, <<>>, <<"x">>}

\* l15_quit when no command is recognised as a request to leave
l15_quit_unrecognised == {}

\* line 304
l15_quit == {<<"q", "u", "i", "t">>, <<"e", "x", "i", "t">>, <<"q">>}
\* line 307
l15_help == {<<"h", "e", "l", "p">>, <<"h">>}
\* lines 310-319: the commands after which the simulation is stepped
l15_stepping ==
    {<<"0">>, <<"r", "e", "s", "e", "t">>, <<"w">>, <<"s">>, <<"a">>,
     <<"d">>, <<"q">>, <<"e">>, <<"r">>, <<"f">>, <<"t">>, <<"g">>, <<"+">>,
     <<"-">>, <<>>}

\* line 298: the while condition, evaluated after a round or a handler
l15_while(n) == IF n < max_steps THEN "prompt" ELSE "end"
\* lines 346-348: except (EOFError, KeyboardInterrupt): message, break
l15_interrupt == "end"
\* l15_inner_except issuing the step again instead of asking the user
l15_inner_except_again(n) == "step"

\* lines 349-350: except Exception inside the loop: message, next round
l15_inner_except(n) == l15_while(n)
\* lines 357-359: except Exception around the session
l15_session_except == "done"

\* line 401: set_background_color("black"), before any environment
l15_main ==
    /\ script = "l15"
    /\ pc = "main"
    /\ set_background_color("black")
    /\ pc' = "demo"
    /\ UNCHANGED <<script, arg, ret, files, i, j, env, env2, live, step_count,
                   episode_count, flag, answer, response, step_result,
                   unpacked, successful, lafan1_datasets, steps_survived,
                   fell_down>>

\* lines 226-237 and 258-260: import and creation inside try
l15_demo_make ==
    /\ script = "l15"
    /\ pc = "demo"
    /\ \E imported \in BOOLEAN, o \in Outcomes :
        /\ ~imported => o = "exc"
        /\ h' = IF imported THEN NoteMake(o, "UnitreeG1:walk", live) ELSE h
        /\ env' = IF o = "ok" THEN "live" ELSE env
        /\ live' = IF o = "ok" THEN live + 1 ELSE live
        /\ pc' = After(o, "demo_play", "session", "crashed")
        /\ i' = IF o = "ok" THEN 1 ELSE 0
    /\ UNCHANGED <<script, arg, ret, files, j, env2, bg, step_count,
                   episode_count, flag, answer, response, step_result,
                   unpacked, successful, lafan1_datasets, steps_survived,
                   fell_down>>

\* lines 239-256: one play_trajectory per control type, then del env; the
\* handle is also released when the except clause ends the function
l15_demo_play ==
    /\ script = "l15"
    /\ pc = "demo_play"
    /\ \E o \in UseOutcomes(env) :
        /\ h' = NoteCall(o, env)
        /\ pc' = After(o, IF i < l15_control_types THEN "demo_play"
                          ELSE "session", "session", "crashed")
        /\ i' = IF o = "ok" /\ i < l15_control_types THEN i + 1 ELSE 0
        /\ env' = IF o = "exc" \/ (o = "ok" /\ i = l15_control_types)
                  THEN "unbound" ELSE env
        /\ live' = IF o = "exc" \/ (o = "ok" /\ i = l15_control_types)
                   THEN live - 1 ELSE live
    /\ UNCHANGED <<script, arg, ret, files, j, env2, bg, step_count,
                   episode_count, flag, answer, response, step_result,
                   unpacked, successful, lafan1_datasets, steps_survived,
                   fell_down>>

\* line 271: env = RLFactory.make("UnitreeG1", n_substeps=20)
l15_session_make ==
    /\ script = "l15"
    /\ pc = "session"
    /\ \E o \in Outcomes :
        /\ h' = NoteMake(o, "UnitreeG1:", live)
        /\ env' = IF o = "ok" THEN "live" ELSE env
        /\ live' = IF o = "ok" THEN live + 1 ELSE live
        /\ pc' = After(o, "session_reset", l15_session_except, "crashed")
    /\ UNCHANGED <<script, arg, ret, files, i, j, env2, bg, step_count,
                   episode_count, flag, answer, response, step_result,
                   unpacked, successful, lafan1_datasets, steps_survived,
                   fell_down>>

\* lines 279-296: reset_result = env.reset(); step_count = 0
l15_session_reset ==
    /\ script = "l15"
    /\ pc = "session_reset"
    /\ \E o \in UseOutcomes(env) :
        /\ h' = NoteCall(o, env)
        /\ pc' = After(o, l15_while(0), l15_session_except, "crashed")
        /\ step_count' = IF o = "ok" THEN 0 ELSE step_count
        /\ env' = IF o = "exc" THEN "unbound" ELSE env
        /\ live' = IF o = "exc" THEN live - 1 ELSE live
    /\ UNCHANGED <<script, arg, ret, files, i, j, env2, bg, episode_count,
                   flag, answer, response, step_result, unpacked, successful,
                   lafan1_datasets, steps_survived, fell_down>>

\* lines 301-322: one command at the prompt
l15_prompt ==
    /\ script = "l15"
    /\ pc = "prompt"
    /\ \E o \in InputOutcomes, line \in l15_lines :
        /\ o # "ok" => line = <<>>
        /\ LET user_input == Lower(Strip(line))
           IN /\ response' = IF o = "ok" THEN user_input ELSE response
              /\ h' = [NoteInput(o) EXCEPT !.friendly = @ \/ o # "ok"]
              /\ pc' = CASE o # "ok" -> l15_interrupt
                         [] user_input \in l15_quit -> "end"
                         [] user_input \in l15_help -> "prompt"
                         [] user_input \in l15_stepping -> "step"
                         [] OTHER -> "prompt"
        /\ j' = 0
    /\ UNCHANGED <<script, arg, ret, files, i, env, env2, live, bg,
                   step_count, episode_count, flag, answer, step_result,
                   unpacked, successful, lafan1_datasets, steps_survived,
                   fell_down>>

\* line 326: state, reward, terminated, truncated, info = env.step(...);
\* a result that has not five items raises ValueError at the assignment
l15_step ==
    /\ script = "l15"
    /\ pc = "step"
    /\ \E o \in UseOutcomes(env), n \in StepArities, d \in BOOLEAN,
          t \in BOOLEAN :
        /\ o # "ok" => n = 5 /\ ~d /\ ~t
        /\ n < 5 => ~t
        /\ h' = [NoteStep(o, env) EXCEPT !.friendly = @ \/ o = "kbd"]
        /\ flag' = (o = "ok" /\ n = 5 /\ (d \/ t))
        /\ pc' = IF o = "ok" /\ n # 5 THEN l15_inner_except(step_count)
                 ELSE After(o, "render", l15_inner_except(step_count),
                            l15_interrupt)
        /\ j' = IF pc' = "render" THEN j ELSE 0
    /\ UNCHANGED <<script, arg, ret, files, i, env, env2, live, bg,
                   step_count, episode_count, answer, response, step_result,
                   unpacked, successful, lafan1_datasets, steps_survived,
                   fell_down>>

\* lines 327-340: render; an ended episode goes to the reset, otherwise the
\* frame is counted
l15_render ==
    /\ script = "l15"
    /\ pc = "render"
    /\ \E o \in UseOutcomes(env) :
        /\ h' = [NoteCall(o, env) EXCEPT !.friendly = @ \/ o = "kbd"]
        /\ step_count' = IF o = "ok" /\ ~flag THEN step_count + 1
                         ELSE step_count
        /\ pc' = After(o, IF flag THEN "reset"
                          ELSE IF j + 1 < l15_frames THEN "step"
                          ELSE l15_while(step_count + 1),
                       l15_inner_except(step_count), l15_interrupt)
        /\ j' = CASE pc' = "step" -> j + 1 [] pc' = "reset" -> j
                  [] OTHER -> 0
        /\ flag' = (pc' = "reset")
    /\ UNCHANGED <<script, arg, ret, files, i, env, env2, live, bg,
                   episode_count, answer, response, step_result, unpacked,
                   successful, lafan1_datasets, steps_survived, fell_down>>

\* lines 330-337: reset_result = env.reset(); break
l15_reset ==
    /\ script = "l15"
    /\ pc = "reset"
    /\ \E o \in UseOutcomes(env) :
        /\ h' = [NoteCall(o, env) EXCEPT !.friendly = @ \/ o = "kbd"]
        /\ pc' = After(o, l15_while(step_count),
                       l15_inner_except(step_count), l15_interrupt)
        /\ j' = 0
        /\ flag' = FALSE
    /\ UNCHANGED <<script, arg, ret, files, i, env, env2, live, bg,
                   step_count, episode_count, answer, response, step_result,
                   unpacked, successful, lafan1_datasets, steps_survived,
                   fell_down>>

\* lines 352-355: the closing messages and del env
l15_session_end ==
    /\ script = "l15"
    /\ pc = "end"
    /\ env' = "unbound"
    /\ live' = live - 1
    /\ pc' = "done"
    /\ UNCHANGED <<script, arg, ret, files, i, j, env2, bg, step_count,
                   episode_count, flag, answer, response, step_result,
                   unpacked, successful, lafan1_datasets, steps_survived,
                   fell_down, h>>

-----------------------------------------------------------------------------
(* archive/g1_comprehensive_dataset_explorer.py : main,                     *)
(* explore_default_datasets, explore_lafan1_datasets,                       *)
(* explore_lafan1_groups, record_available_dataset                          *)

\* line 25
exp_default_motions == <<"walk", "run", "squat", "balance">>

\* lines 49-70, in the order the categories are iterated
exp_lafan1 ==
    <<"walk1_subject1", "walk1_subject2", "walk1_subject5",
      "walk2_subject1", "walk2_subject3", "walk2_subject4",
      "walk3_subject1", "walk3_subject2", "walk3_subject3",
      "walk3_subject4", "walk3_subject5", "walk4_subject1",
      "run1_subject2", "run1_subject5", "run2_subject1", "run2_subject4",
      "sprint1_subject2", "sprint1_subject4",
      "dance1_subject1", "dance1_subject2", "dance1_subject3",
      "dance2_subject1", "dance2_subject2", "dance2_subject3",
      "dance2_subject4", "dance2_subject5",
      "fallAndGetUp1_subject1", "fallAndGetUp1_subject4",
      "fallAndGetUp1_subject5", "fallAndGetUp2_subject2",
      "fallAndGetUp2_subject3", "fallAndGetUp3_subject1",
      "fight1_subject2", "fight1_subject3", "fight1_subject5",
      "fightAndSports1_subject1", "fightAndSports1_subject4",
      "jumps1_subject1", "jumps1_subject2", "jumps1_subject5">>

\* line 99
exp_groups == <<"LAFAN1_LOCOMOTION_DATASETS", "LAFAN1_DANCE_DATASETS",
                "LAFAN1_ALL_DATASETS">>

\* line 232
exp_example_lafan1 == <<"dance2_subject4", "walk1_subject1", "jumps1_subject1">>

\* lines the user may type at the y/N prompts
YesNoLines == {<<"y">>, <<" ", "Y", "E", "S", " ">>, <<>>, <<"n">>,
               <<"N", "o">>, <<"y", "e">>, <<" ">>}

\* exp_confirmed taking every answer but 'n' as a yes
exp_confirmed_not_n(r) == r # <<"n">>

\* line 220 (and g1_lafan1_demo.py line 138): response in ['y', 'yes']
exp_confirmed(r) == r \in {<<"y">>, <<"y", "e", "s">>}

\* lines 34-38, 85-89, 108-112: except Exception reports the item, finally
\* releases the handle, and the for statement takes the next item
exp_after_item(phase, k) ==
    CASE phase = "default" /\ k < Len(exp_default_motions) -> "default"
      [] phase = "default" -> "lafan1"
      [] phase = "lafan1" /\ k < Len(exp_lafan1) -> "lafan1"
      [] phase = "lafan1" -> "groups"
      [] phase = "groups" /\ k < Len(exp_groups) -> "groups"
      [] OTHER -> "prompt"

\* the list index after item k of a phase
exp_next_index(phase, k) == IF exp_after_item(phase, k) = phase THEN k + 1 ELSE 1

\* the phase of the program counter ("default_info" belongs to "default")
exp_phase(p) ==
    CASE p \in {"main", "default", "default_info"} -> "default"
      [] p \in {"lafan1", "lafan1_info"} -> "lafan1"
      [] OTHER -> "groups"

\* the list of a phase
exp_list(phase) ==
    CASE phase = "default" -> exp_default_motions
      [] phase = "lafan1" -> exp_lafan1
      [] OTHER -> exp_groups

\* the creation request of item k of a phase
exp_key(phase, k) ==
    CASE phase = "default" -> "UnitreeG1:" \o exp_default_motions[k]
      [] phase = "lafan1" -> "UnitreeG1:lafan1:" \o exp_lafan1[k]
      [] OTHER -> "UnitreeG1:group:" \o exp_groups[k]

\* lines 40 and 201: explore_default_datasets returns default_motions, and
\* main keeps it as default_datasets
exp_default_datasets == exp_default_motions

\* history: the first default dataset whose creation or trajectory query
\* raised while explore_default_datasets tested it
exp_note(hh, phase, k, o) ==
    IF phase = "default" /\ o = "exc" /\ hh.missed = 0
    THEN [hh EXCEPT !.missed = k] ELSE hh

\* exp_finally without the del statement
exp_finally_missing(n) == n

\* lines 36-38, 87-89, 110-112, 188-190: finally: if 'env' in locals():
\* del env; the number of live handles afterwards
exp_finally(n) == n - 1

\* lines 30, 80, 104: env = ImitationFactory.make(...) of the item
exp_make ==
    /\ script = "exp"
    /\ pc \in {"main", "default", "lafan1", "groups"}
    /\ LET phase == exp_phase(pc)
           k == IF pc = "main" THEN 1 ELSE i
       IN \E o \in Outcomes :
        /\ h' = exp_note(Item(NoteMake(o, exp_key(phase, k), live),
                              "exp_" \o phase, Len(exp_list(phase)), k, o),
                         phase, k, o)
        /\ env' = IF o = "ok" THEN "live" ELSE env
        /\ live' = IF o = "ok" THEN live + 1 ELSE live
        /\ pc' = After(o, phase \o "_info", exp_after_item(phase, k),
                       "crashed")
        /\ i' = IF o = "exc" THEN exp_next_index(phase, k) ELSE k
    /\ UNCHANGED <<script, arg, ret, files, j, env2, bg, step_count,
                   episode_count, flag, answer, response, step_result,
                   unpacked, successful, lafan1_datasets, steps_survived,
                   fell_down>>

\* lines 32, 82-84, 106: traj_info = env.get_trajectory_info(); in
\* explore_lafan1_datasets the name is then appended to available_datasets;
\* the finally clause deletes env on every way out
exp_info ==
    /\ script = "exp"
    /\ pc \in {"default_info", "lafan1_info", "groups_info"}
    /\ LET phase == exp_phase(pc)
       IN \E o \in UseOutcomes(env) :
        /\ h' = exp_note(IF o = "exc" THEN Fail(NoteCall(o, env), i)
                         ELSE NoteCall(o, env), phase, i, o)
        /\ env' = "unbound"
        /\ live' = exp_finally(live)
        /\ successful' = IF o = "ok" /\ phase = "lafan1" THEN successful + 1
                         ELSE successful
        /\ lafan1_datasets' =
              IF o = "ok" /\ phase = "lafan1"
                 /\ \E e \in 1..Len(exp_example_lafan1) :
                        exp_example_lafan1[e] = exp_lafan1[i]
              THEN lafan1_datasets \cup {"lafan1_" \o exp_lafan1[i]}
              ELSE lafan1_datasets
        /\ pc' = After(o, exp_after_item(phase, i), exp_after_item(phase, i),
                       "crashed")
        /\ i' = IF o = "kbd" THEN i ELSE exp_next_index(phase, i)
    /\ UNCHANGED <<script, arg, ret, files, j, env2, bg, step_count,
                   episode_count, flag, answer, response, step_result,
                   unpacked, steps_survived, fell_down>>

\* lines 224-239: the datasets main records: every default dataset, then
\* the examples found in lafan1_datasets (numbered after the defaults)
exp_record_items(available) ==
    {k \in 1..(Len(exp_default_datasets) + Len(exp_example_lafan1)) :
        \/ k <= Len(exp_default_datasets)
        \/ ("lafan1_" \o exp_example_lafan1[k - Len(exp_default_datasets)])
              \in available}

\* the item recorded after item k; 0 when none is left
exp_record_next(available, k) ==
    LET later == {n \in exp_record_items(available) : n > k}
    IN IF later = {} THEN 0
       ELSE CHOOSE n \in later : \A m \in later : n <= m

\* lines 218-220: response = input("... (y/N): ").strip().lower()
exp_prompt ==
    /\ script = "exp"
    /\ pc = "prompt"
    /\ \E o \in InputOutcomes, line \in YesNoLines :
        /\ o # "ok" => line = <<>>
        /\ answer' = IF o = "ok" THEN line ELSE answer
        /\ response' = IF o = "ok" THEN Lower(Strip(line)) ELSE response
        /\ h' = NoteInput(o)
        /\ pc' = CASE o # "ok" -> "crashed"
                   [] exp_confirmed(Lower(Strip(line))) -> "record"
                   [] OTHER -> "done"
        /\ i' = IF o = "ok" /\ exp_confirmed(Lower(Strip(line))) THEN 1
                ELSE 0
        /\ successful' = 0
    /\ UNCHANGED <<script, arg, ret, files, j, env, env2, live, bg,
                   step_count, episode_count, flag, step_result, unpacked,
                   lafan1_datasets, steps_survived, fell_down>>

\* lines 186-190: except Exception of record_available_dataset, finally
\* del env; main goes on with the next dataset
exp_record_after(available, k) ==
    IF exp_record_next(available, k) = 0 THEN "done" ELSE "record"

\* lines 138-150: record_available_dataset(..., record_video=True) creates
\* the environment of item i
exp_record_make ==
    /\ script = "exp"
    /\ pc = "record"
    /\ \E o \in Outcomes :
        /\ h' = LET nd == Len(exp_default_motions)
                    m == [NoteMake(o, IF i <= nd THEN exp_key("default", i)
                                      ELSE "UnitreeG1:lafan1:"
                                           \o exp_example_lafan1[i - nd],
                                   live)
                          EXCEPT !.recording = TRUE]
                IN IF i <= nd THEN Item(m, "exp_record", nd, i, o) ELSE m
        /\ env' = IF o = "ok" THEN "live" ELSE env
        /\ live' = IF o = "ok" THEN live + 1 ELSE live
        /\ pc' = After(o, "record_play",
                       exp_record_after(lafan1_datasets, i), "crashed")
        /\ i' = IF o = "exc" THEN exp_record_next(lafan1_datasets, i) ELSE i
    /\ UNCHANGED <<script, arg, ret, files, j, env2, bg, step_count,
                   episode_count, flag, answer, response, step_result,
                   unpacked, successful, lafan1_datasets, steps_survived,
                   fell_down>>

\* lines 166-171: env.play_trajectory(..., recorder_params=...), then the
\* finally clause
exp_record_play ==
    /\ script = "exp"
    /\ pc = "record_play"
    /\ \E o \in UseOutcomes(env) :
        /\ h' = LET c == [NoteCall(o, env) EXCEPT !.recording = TRUE]
                IN IF o = "exc" /\ i <= Len(exp_default_motions)
                   THEN Fail(c, i) ELSE c
        /\ env' = "unbound"
        /\ live' = exp_finally(live)
        /\ pc' = After(o, exp_record_after(lafan1_datasets, i),
                       exp_record_after(lafan1_datasets, i), "crashed")
        /\ i' = IF o = "kbd" THEN i
                ELSE exp_record_next(lafan1_datasets, i)
    /\ UNCHANGED <<script, arg, ret, files, j, env2, bg, step_count,
                   episode_count, flag, answer, response, step_result,
                   unpacked, successful, lafan1_datasets, steps_survived,
                   fell_down>>

-----------------------------------------------------------------------------
(* archive/g1_lafan1_demo.py : main and the functions it calls              *)

\* the creations of demo_individual_lafan1_datasets (lines 19, 27, 35),
\* demo_lafan1_groups (lines 49, 57) and demo_mixed_datasets (line 70)
laf_demos ==
    <<"UnitreeG1:lafan1:dance2_subject4",
      "UnitreeG1:lafan1:walk1_subject1+walk2_subject3",
      "UnitreeG1:lafan1:jumps1_subject1+fallAndGetUp1_subject1",
      "UnitreeG1:group:LAFAN1_LOCOMOTION_DATASETS",
      "UnitreeG1:group:LAFAN1_DANCE_DATASETS",
      "UnitreeG1:walk+squat:lafan1:dance2_subject4+jumps1_subject1">>

\* lines 83-88
laf_interesting_motions ==
    <<"dance2_subject4", "jumps1_subject1", "fallAndGetUp1_subject1",
      "fight1_subject2">>

\* line 138: response in ['y', 'yes']
laf_confirmed(r) == r \in {<<"y">>, <<"y", "e", "s">>}

\* lines 116-121: except Exception of record_lafan1_examples, finally del
\* env; the for statement takes the next motion
laf_record_after(k) ==
    IF k < Len(laf_interesting_motions) THEN "record" ELSE "done"

\* lines 19-75: one of the six creations of the demos, outside any try
laf_make ==
    /\ script = "laf"
    /\ pc \in {"main", "make"}
    /\ LET k == IF pc = "main" THEN 1 ELSE i
       IN \E o \in Outcomes :
        /\ h' = NoteMake(o, laf_demos[k], live)
        /\ env' = IF o = "ok" THEN "live" ELSE env
        /\ live' = IF o = "ok" THEN live + 1 ELSE live
        /\ pc' = After(o, "play", "crashed", "crashed")
        /\ i' = k
    /\ UNCHANGED <<script, arg, ret, files, j, env2, bg, step_count,
                   episode_count, flag, answer, response, step_result,
                   unpacked, successful, lafan1_datasets, steps_survived,
                   fell_down>>

\* lines 22-75: env.play_trajectory(...) of the demo, then del env
laf_play ==
    /\ script = "laf"
    /\ pc = "play"
    /\ \E o \in UseOutcomes(env) :
        /\ h' = NoteCall(o, env)
        /\ env' = IF o = "ok" THEN "unbound" ELSE env
        /\ live' = IF o = "ok" THEN live - 1 ELSE live
        /\ pc' = After(o, IF i < Len(laf_demos) THEN "make" ELSE "prompt",
                       "crashed", "crashed")
        /\ i' = IF o = "ok" /\ i < Len(laf_demos) THEN i + 1 ELSE i
    /\ UNCHANGED <<script, arg, ret, files, j, env2, bg, step_count,
                   episode_count, flag, answer, response, step_result,
                   unpacked, successful, lafan1_datasets, steps_survived,
                   fell_down>>

\* lines 137-139: response = input("... (y/N): ").strip().lower()
laf_prompt ==
    /\ script = "laf"
    /\ pc = "prompt"
    /\ \E o \in InputOutcomes, line \in YesNoLines :
        /\ o # "ok" => line = <<>>
        /\ answer' = IF o = "ok" THEN line ELSE answer
        /\ response' = IF o = "ok" THEN Lower(Strip(line)) ELSE response
        /\ h' = NoteInput(o)
        /\ pc' = CASE o # "ok" -> "crashed"
                   [] laf_confirmed(Lower(Strip(line))) -> "record"
                   [] OTHER -> "done"
        /\ i' = IF o = "ok" /\ laf_confirmed(Lower(Strip(line))) THEN 1
                ELSE 0
    /\ UNCHANGED <<script, arg, ret, files, j, env, env2, live, bg,
                   step_count, episode_count, flag, step_result, unpacked,
                   successful, lafan1_datasets, steps_survived, fell_down>>

\* lines 93-96: the creation of record_lafan1_examples, inside try
laf_record_make ==
    /\ script = "laf"
    /\ pc = "record"
    /\ \E o \in Outcomes :
        /\ h' = [Item(NoteMake(o, "UnitreeG1:lafan1:"
                                  \o laf_interesting_motions[i], live),
                      "laf_record", Len(laf_interesting_motions), i, o)
                 EXCEPT !.recording = TRUE]
        /\ env' = IF o = "ok" THEN "live" ELSE env
        /\ live' = IF o = "ok" THEN live + 1 ELSE live
        /\ pc' = After(o, "record_play", laf_record_after(i), "crashed")
        /\ i' = IF o = "exc" /\ laf_record_after(i) = "record" THEN i + 1
                ELSE i
    /\ UNCHANGED <<script, arg, ret, files, j, env2, bg, step_count,
                   episode_count, flag, answer, response, step_result,
                   unpacked, successful, lafan1_datasets, steps_survived,
                   fell_down>>

\* lines 107-121: env.play_trajectory(..., recorder_params=...), then the
\* finally clause
laf_record_play ==
    /\ script = "laf"
    /\ pc = "record_play"
    /\ \E o \in UseOutcomes(env) :
        /\ h' = LET c == [NoteCall(o, env) EXCEPT !.recording = TRUE]
                IN IF o = "exc" THEN Fail(c, i) ELSE c
        /\ env' = "unbound"
        /\ live' = live - 1
        /\ pc' = After(o, laf_record_after(i), laf_record_after(i),
                       "crashed")
        /\ i' = IF o # "kbd" /\ laf_record_after(i) = "record" THEN i + 1
                ELSE i
    /\ UNCHANGED <<script, arg, ret, files, j, env2, bg, step_count,
                   episode_count, flag, answer, response, step_result,
                   unpacked, successful, lafan1_datasets, steps_survived,
                   fell_down>>

-----------------------------------------------------------------------------
(* lesson_1_8_test_utilities.py : test_environment_step                     *)

\* range(5) of line 290
l18_more_steps == 5

\* l18_unpack with the two-way test of lesson_1_1 in place of the three
\* branches
l18_unpack_two_way(prev, result) == l11_unpack(prev, result)

\* lines 271-279 (and 292-300): 5 names; 4 names and truncated = False;
\* otherwise the first three items, truncated = False and info = {}
l18_unpack(prev, result) ==
    IF Len(result) = 5
    THEN [raised |-> FALSE,
          bound |-> {"obs", "reward", "done", "truncated", "info"},
          obs |-> result[1], reward |-> result[2], done |-> result[3],
          truncated |-> result[4], info |-> result[5]]
    ELSE IF Len(result) = 4
    THEN [raised |-> FALSE,
          bound |-> {"obs", "reward", "done", "truncated", "info"},
          obs |-> result[1], reward |-> result[2], done |-> result[3],
          truncated |-> FALSE, info |-> result[4]]
    ELSE IF Len(result) >= 3
    THEN [raised |-> FALSE,
          bound |-> {"obs", "reward", "done", "truncated", "info"},
          obs |-> result[1], reward |-> result[2], done |-> result[3],
          truncated |-> FALSE, info |-> "{}"]
    ELSE [prev EXCEPT !.raised = TRUE]

\* lines 313-315: except Exception: message, return False
l18_except == "done"

\* line 255: env = RLFactory.make("UnitreeG1", n_substeps=20)
l18_make ==
    /\ script = "l18"
    /\ pc = "main"
    /\ \E o \in Outcomes :
        /\ h' = NoteMake(o, "UnitreeG1:", live)
        /\ env' = IF o = "ok" THEN "live" ELSE env
        /\ live' = IF o = "ok" THEN live + 1 ELSE live
        /\ pc' = After(o, "reset", l18_except, "crashed")
    /\ UNCHANGED <<script, arg, ret, files, i, j, env2, bg, step_count,
                   episode_count, flag, answer, response, step_result,
                   unpacked, successful, lafan1_datasets, steps_survived,
                   fell_down>>

\* line 258 (and line 303 after an ended episode): env.reset(); when the
\* function is left the local handle is released
l18_reset ==
    /\ script = "l18"
    /\ pc \in {"reset", "reset_done"}
    /\ \E o \in UseOutcomes(env) :
        /\ h' = NoteCall(o, env)
        /\ pc' = After(o, IF pc = "reset" \/ j < 1 + l18_more_steps
                          THEN "step" ELSE "done", l18_except, "crashed")
        /\ j' = IF pc = "reset" THEN 0 ELSE j
        /\ env' = IF pc' = "done" THEN "unbound" ELSE env
        /\ live' = IF pc' = "done" THEN live - 1 ELSE live
    /\ UNCHANGED <<script, arg, ret, files, i, env2, bg, step_count,
                   episode_count, flag, answer, response, step_result,
                   unpacked, successful, lafan1_datasets, steps_survived,
                   fell_down>>

\* lines 270-286 (first step, with the assertions on the unpacked values)
\* and 290-308 (the five further steps)
l18_step ==
    /\ script = "l18"
    /\ pc = "step"
    /\ \E o \in UseOutcomes(env), n \in StepArities, d \in BOOLEAN,
          t \in BOOLEAN, valid \in BOOLEAN :
        /\ o # "ok" => n = 5 /\ ~d /\ ~t
        /\ n < 5 => ~t
        /\ (o # "ok" \/ j > 0) => valid
        /\ LET u == IF o = "ok"
                    THEN l18_unpack(unpacked, StepResult(n, d, t))
                    ELSE unpacked
               ended == u.done \/ u.truncated
           IN /\ h' = NoteStep(o, env)
              /\ step_result' = IF o = "ok" THEN StepResult(n, d, t)
                                ELSE step_result
              /\ unpacked' = u
              /\ flag' = (o = "ok" /\ valid /\ ~u.raised)
              /\ j' = IF o = "ok" /\ valid /\ ~u.raised THEN j + 1 ELSE j
              /\ pc' = IF o = "ok" /\ (u.raised \/ ~valid) THEN l18_except
                       ELSE After(o, IF j > 0 /\ ended THEN "reset_done"
                                     ELSE IF j + 1 < 1 + l18_more_steps
                                     THEN "step" ELSE "done",
                                  l18_except, "crashed")
        /\ env' = IF pc' = "done" THEN "unbound" ELSE env
        /\ live' = IF pc' = "done" THEN live - 1 ELSE live
    /\ UNCHANGED <<script, arg, ret, files, i, env2, bg, step_count,
                   episode_count, answer, response, successful,
                   lafan1_datasets, steps_survived, fell_down>>

-----------------------------------------------------------------------------
(* archive/tutorial_02_interactive_control_fixed.py : main                  *)

\* the "duration" entries of control_experiments (lines 122-149)
t2f_durations == <<150, 200, 300>>

\* lines 187-193: 5 names; 4 names (truncated is not assigned); otherwise
\* 3 names and info = {}.  A name that is not assigned keeps what an
\* earlier step bound to it.
t2f_unpack(prev, result) ==
    IF Len(result) = 5
    THEN [raised |-> FALSE,
          bound |-> {"obs", "reward", "done", "truncated", "info"},
          obs |-> result[1], reward |-> result[2], done |-> result[3],
          truncated |-> result[4], info |-> result[5]]
    ELSE IF Len(result) = 4
    THEN [prev EXCEPT !.raised = FALSE,
                      !.bound = @ \cup {"obs", "reward", "done", "info"},
                      !.obs = result[1], !.reward = result[2],
                      !.done = result[3], !.info = result[4]]
    ELSE IF Len(result) = 3
    THEN [prev EXCEPT !.raised = FALSE,
                      !.bound = @ \cup {"obs", "reward", "done", "info"},
                      !.obs = result[1], !.reward = result[2],
                      !.done = result[3], !.info = "{}"]
    ELSE [prev EXCEPT !.raised = TRUE]

\* lines 222-239: except Exception of the experiment; the result is
\* recorded and the for statement takes the next experiment
t2f_after_experiment(k) == IF k < Len(t2f_durations) THEN "reset" ELSE "done"

\* lines 100-113: env = RLFactory.make(...); on failure main returns
t2f_make ==
    /\ script = "t2f"
    /\ pc = "main"
    /\ \E o \in Outcomes :
        /\ h' = NoteMake(o, "UnitreeG1:", live)
        /\ env' = IF o = "ok" THEN "live" ELSE env
        /\ live' = IF o = "ok" THEN live + 1 ELSE live
        /\ pc' = After(o, "reset", "done", "crashed")
        /\ i' = IF o = "ok" THEN 1 ELSE i
    /\ UNCHANGED <<script, arg, ret, files, j, env2, bg, step_count,
                   episode_count, flag, answer, response, step_result,
                   unpacked, successful, lafan1_datasets, steps_survived,
                   fell_down>>

\* lines 165-178: obs = env.reset(key), outside the try of the experiment;
\* steps_survived = 0, fell_down = False
t2f_reset ==
    /\ script = "t2f"
    /\ pc = "reset"
    /\ \E o \in UseOutcomes(env) :
        /\ h' = NoteCall(o, env)
        /\ pc' = After(o, "step", "crashed", "crashed")
        /\ j' = IF o = "ok" THEN 0 ELSE j
        /\ steps_survived' = IF o = "ok" THEN 0 ELSE steps_survived
        /\ fell_down' = IF o = "ok" THEN FALSE ELSE fell_down
        /\ step_result' = <<>>
        /\ unpacked' = NoUnpack
    /\ UNCHANGED <<script, arg, ret, files, i, env, env2, live, bg,
                   step_count, episode_count, flag, answer, response,
                   successful, lafan1_datasets>>

\* lines 183-205: step, unpack, analyze_robot_state; a fallen robot ends
\* the experiment, otherwise steps_survived = step + 1
t2f_step ==
    /\ script = "t2f"
    /\ pc = "step"
    /\ \E o \in UseOutcomes(env), n \in StepArities, d \in BOOLEAN,
          t \in BOOLEAN, is_fallen \in BOOLEAN :
        /\ o # "ok" => n = 5 /\ ~d /\ ~t /\ ~is_fallen
        /\ n < 5 => ~t
        /\ LET u == IF o = "ok"
                    THEN t2f_unpack(unpacked, StepResult(n, d, t))
                    ELSE unpacked
           IN /\ h' = NoteStep(o, env)
              /\ step_result' = IF o = "ok" THEN StepResult(n, d, t)
                                ELSE step_result
              /\ unpacked' = u
              /\ fell_down' = (fell_down \/ (o = "ok" /\ is_fallen))
              /\ steps_survived' = IF o = "ok" /\ ~is_fallen THEN j + 1
                                   ELSE steps_survived
              /\ pc' = After(o, IF is_fallen THEN t2f_after_experiment(i)
                                ELSE "render",
                             t2f_after_experiment(i), "crashed")
              /\ i' = IF pc' = "reset" THEN i + 1 ELSE i
    /\ UNCHANGED <<script, arg, ret, files, j, env, env2, live, bg,
                   step_count, episode_count, flag, answer, response,
                   successful, lafan1_datasets>>

\* lines 213-217: env.render() in its own try; its failure is ignored.
\* Nothing reads the names of the last unpacking after the fall test, so
\* they are forgotten here.
t2f_render ==
    /\ script = "t2f"
    /\ pc = "render"
    /\ \E o \in UseOutcomes(env) :
        /\ h' = NoteCall(o, env)
        /\ pc' = After(o, IF j + 1 < t2f_durations[i] THEN "step"
                          ELSE t2f_after_experiment(i),
                       IF j + 1 < t2f_durations[i] THEN "step"
                       ELSE t2f_after_experiment(i), "crashed")
        /\ j' = IF o # "kbd" THEN j + 1 ELSE j
        /\ i' = IF pc' = "reset" THEN i + 1 ELSE i
        /\ step_result' = <<>>
        /\ unpacked' = NoUnpack
    /\ UNCHANGED <<script, arg, ret, files, env, env2, live, bg, step_count,
                   episode_count, flag, answer, response, successful,
                   lafan1_datasets, steps_survived, fell_down>>

-----------------------------------------------------------------------------
(* The action-size helpers: get_action_size of lesson_1_8, lesson_1_5 and   *)
(* lesson_1_6, and action_dim of archive/g1_04_numerical_analysis.py        *)

\* the variables of the scripts' runs, which a helper call leaves alone
run_state == <<i, j, env, env2, live, bg, step_count, episode_count, flag,
               answer, response, step_result, unpacked, successful,
               lafan1_datasets, steps_survived, fell_down, files, h>>

\* the sizes an environment may report
ActionSizes == {23, 29}
\* the shape tuples an action space may have; () has no item 0
Shapes == {<<>>, <<23>>, <<29>>}

\* the attributes of an environment object that the helpers look at; a
\* number or tuple that is absent is 0 or ()
EnvObjects ==
    {e \in [has_action_size : BOOLEAN, action_size : ActionSizes \cup {0},
            has_action_space : BOOLEAN, has_shape : BOOLEAN, shape : Shapes,
            has_info : BOOLEAN, info_has_shape : BOOLEAN,
            info_shape : Shapes, info_has_n : BOOLEAN,
            info_n : ActionSizes \cup {0}] :
        /\ e.has_action_size <=> e.action_size # 0
        /\ e.has_shape => e.has_action_space
        /\ ~e.has_shape => e.shape = <<>>
        /\ e.info_has_shape => e.has_info /\ ~e.info_has_n
        /\ ~e.info_has_shape => e.info_shape = <<>>
        /\ e.info_has_n => e.has_info
        /\ e.info_has_n <=> e.info_n # 0}

\* a helper returned v / a helper raised
Returned(v) == [raised |-> FALSE, value |-> v]
Raised == [raised |-> TRUE, value |-> 0]

\* lesson_1_8_test_utilities.py, lines 24-31; shape[0] of () raises
\* IndexError
l18_get_action_size(e) ==
    IF e.has_action_size THEN Returned(e.action_size)
    ELSE IF e.has_action_space /\ e.has_shape
    THEN IF Len(e.shape) > 0 THEN Returned(e.shape[1]) ELSE Raised
    ELSE Returned(23)

\* lesson_1_5_interactive_control.py, lines 39-46
l15_get_action_size(e) ==
    IF e.has_action_size THEN Returned(e.action_size)
    ELSE IF e.has_action_space /\ e.has_shape
    THEN IF Len(e.shape) > 0 THEN Returned(e.shape[1]) ELSE Raised
    ELSE Returned(23)

\* lesson_1_6_motion_analysis.py, lines 27-34
l16_get_action_size(e) ==
    IF e.has_action_size THEN Returned(e.action_size)
    ELSE IF e.has_action_space /\ e.has_shape
    THEN IF Len(e.shape) > 0 THEN Returned(e.shape[1]) ELSE Raised
    ELSE Returned(23)

\* archive/g1_04_numerical_analysis.py, lines 26-29: shape[0] of
\* env.info.action_space if it has a shape, else its n; a bare except turns
\* every failure into 29
g104n_action_dim(e) ==
    IF ~e.has_info THEN Returned(29)
    ELSE IF e.info_has_shape
    THEN IF Len(e.info_shape) > 0 THEN Returned(e.info_shape[1])
         ELSE Returned(29)
    ELSE IF e.info_has_n THEN Returned(e.info_n)
    ELSE Returned(29)

\* an environment object is handed to the helpers
asz_env ==
    /\ script = "asz"
    /\ pc = "main"
    /\ \E e \in EnvObjects : arg' = e
    /\ ret' = [l18 |-> Raised, l15 |-> Raised, l16 |-> Raised,
               g104n |-> Raised]
    /\ pc' = "l18"
    /\ UNCHANGED <<script, run_state>>

\* lesson_1_8, line 265: action_size = get_action_size(env)
asz_l18 ==
    /\ script = "asz"
    /\ pc = "l18"
    /\ ret' = [ret EXCEPT !.l18 = l18_get_action_size(arg)]
    /\ pc' = "l15"
    /\ UNCHANGED <<script, arg, run_state>>

\* lesson_1_5, line 273: action_size = get_action_size(env)
asz_l15 ==
    /\ script = "asz"
    /\ pc = "l15"
    /\ ret' = [ret EXCEPT !.l15 = l15_get_action_size(arg)]
    /\ pc' = "l16"
    /\ UNCHANGED <<script, arg, run_state>>

\* lesson_1_6, line 173: action_size = get_action_size(env)
asz_l16 ==
    /\ script = "asz"
    /\ pc = "l16"
    /\ ret' = [ret EXCEPT !.l16 = l16_get_action_size(arg)]
    /\ pc' = "g104n"
    /\ UNCHANGED <<script, arg, run_state>>

\* g1_04_numerical_analysis, lines 26-29: action_dim = ...
asz_g104n ==
    /\ script = "asz"
    /\ pc = "g104n"
    /\ ret' = [ret EXCEPT !.g104n = g104n_action_dim(arg)]
    /\ pc' = "done"
    /\ UNCHANGED <<script, arg, run_state>>

-----------------------------------------------------------------------------
(* archive/g1_dance_recorder_fixed.py : main, record_dance_video            *)

\* lines 79-88
dnc_dance_datasets ==
    <<"dance1_subject1", "dance1_subject2", "dance1_subject3",
      "dance2_subject1", "dance2_subject2", "dance2_subject3",
      "dance2_subject4", "dance2_subject5">>

\* where a successful play_trajectory may have left its video: at the
\* video_path it was given, under LocoMuJoCo_recordings, or nowhere
RecorderWrites == {"video_path", "recordings", "nothing"}

\* the for statement of line 98 after dance k
dnc_next(k) == IF k < Len(dnc_dance_datasets) THEN "make" ELSE "done"

\* lines 65-67: except Exception: return None; main takes the next dance
dnc_except(k) == dnc_next(k)

\* lines 39-63: the path record_dance_video returns and the files it leaves.
\* A file is described by the recording that produced it: a dance name,
\* "old" for a file of an earlier run, "none" when there is no file.
\*   40-43  expected_video exists: it is returned as it is
\*   46-60  else the most recent mp4 under LocoMuJoCo_recordings is copied
\*          to the expected path and that path is returned
\*   61-63  else None
dnc_video_file(f, dance_name) ==
    IF f.expected # "none"
    THEN [video_file |-> "G1_Dance_Videos/" \o dance_name \o "_dance.mp4",
          content |-> f.expected, files |-> f]
    ELSE IF f.latest # "none"
    THEN [video_file |-> "G1_Dance_Videos/" \o dance_name \o "_dance.mp4",
          content |-> f.latest,
          files |-> [f EXCEPT !.expected = f.latest]]
    ELSE [video_file |-> "None", content |-> "none", files |-> f]

\* line 93: os.makedirs('G1_Dance_Videos', exist_ok=True); the directory
\* LocoMuJoCo_recordings may hold videos of an earlier run
dnc_main ==
    /\ script = "dnc"
    /\ pc = "main"
    /\ \E old \in {"none", "old"} : files' = [files EXCEPT !.latest = old]
    /\ i' = 1
    /\ pc' = "make"
    /\ UNCHANGED <<script, arg, ret, j, env, env2, live, bg, step_count,
                   episode_count, flag, answer, response, step_result,
                   unpacked, successful, lafan1_datasets, steps_survived,
                   fell_down, h>>

\* lines 19-22: record_dance_video(dance) creates the environment; the
\* expected path of this dance may hold a video of an earlier run
dnc_make ==
    /\ script = "dnc"
    /\ pc = "make"
    /\ \E o \in Outcomes, old \in {"none", "old"} :
        /\ h' = Item(NoteMake(o, "UnitreeG1:lafan1:" \o dnc_dance_datasets[i],
                              live),
                     "dnc", Len(dnc_dance_datasets), i, o)
        /\ files' = [files EXCEPT !.expected = old]
        /\ arg' = dnc_dance_datasets[i]
        /\ ret' = IF o = "exc"
                  THEN [dance |-> dnc_dance_datasets[i],
                        video_file |-> "None", content |-> "none"]
                  ELSE ret
        /\ env' = IF o = "ok" THEN "live" ELSE env
        /\ live' = IF o = "ok" THEN live + 1 ELSE live
        /\ pc' = After(o, "play", dnc_except(i), "crashed")
        /\ i' = IF o = "exc" /\ dnc_except(i) = "make" THEN i + 1 ELSE i
    /\ UNCHANGED <<script, j, env2, bg, step_count, episode_count, flag,
                   answer, response, step_result, unpacked, successful,
                   lafan1_datasets, steps_survived, fell_down>>

\* lines 27-36: env.play_trajectory(..., recorder_params={'video_path':
\* ...}); the finally clause of lines 68-70 deletes env when the call raises
dnc_play ==
    /\ script = "dnc"
    /\ pc = "play"
    /\ \E o \in UseOutcomes(env), w \in RecorderWrites :
        /\ o # "ok" => w = "nothing"
        /\ h' = LET c == [NoteCall(o, env) EXCEPT !.recording = TRUE]
                IN IF o = "exc" THEN Fail(c, i) ELSE c
        /\ files' = CASE w = "video_path" -> [files EXCEPT !.expected = arg]
                      [] w = "recordings" -> [files EXCEPT !.latest = arg]
                      [] OTHER -> files
        /\ ret' = IF o = "exc"
                  THEN [dance |-> arg, video_file |-> "None",
                        content |-> "none"]
                  ELSE ret
        /\ env' = IF o = "ok" THEN env ELSE "unbound"
        /\ live' = IF o = "ok" THEN live ELSE live - 1
        /\ pc' = After(o, "check", dnc_except(i), "crashed")
        /\ i' = IF o = "exc" /\ dnc_except(i) = "make" THEN i + 1 ELSE i
    /\ UNCHANGED <<script, arg, j, env2, bg, step_count, episode_count, flag,
                   answer, response, step_result, unpacked, successful,
                   lafan1_datasets, steps_survived, fell_down>>

\* lines 38-63 and 68-70: look for the video, return, del env; lines
\* 101-103: main appends (dance, video_file) when a path was returned
dnc_check ==
    /\ script = "dnc"
    /\ pc = "check"
    /\ LET r == dnc_video_file(files, arg)
       IN /\ files' = r.files
          /\ ret' = [dance |-> arg, video_file |-> r.video_file,
                     content |-> r.content]
          /\ successful' = IF r.video_file # "None" THEN successful + 1
                           ELSE successful
    /\ env' = "unbound"
    /\ live' = live - 1
    /\ pc' = dnc_next(i)
    /\ i' = IF dnc_next(i) = "make" THEN i + 1 ELSE i
    /\ UNCHANGED <<script, arg, j, env2, bg, step_count, episode_count, flag,
                   answer, response, step_result, unpacked, lafan1_datasets,
                   steps_survived, fell_down, h>>

-----------------------------------------------------------------------------
(* lesson_1_5_interactive_control.py: the controller and its commands.     *)
(* Actions and speeds are counted in hundredths: 0.1 is 10, 1.0 is 100.    *)

Min(a, b) == IF a <= b THEN a ELSE b

\* lines 52-57: a controller after some commands; every joint carries the
\* same value, the vector has action_size entries
Controllers ==
    [current_action : {[k \in 1..n |-> v] : n \in {3, 5},
                                            v \in {-100, 0, 95, 100}},
     control_speed : {1, 10, 49, 50},
     control_mode : {"individual"}]

\* lines 64-82: the commands the help text lists
l15_advertised ==
    {<<"w">>, <<"s">>, <<"a">>, <<"d">>, <<"q">>, <<"e">>, <<"r">>, <<"f">>,
     <<"t">>, <<"g">>, <<"1">>, <<"2">>, <<"3">>, <<"4">>, <<"+">>, <<"-">>,
     <<"x">>, <<"h">>}

\* lines 84-145: update_action(key); joint k of the source is entry k + 1
update_action(c, key) ==
    LET speed == c.control_speed
        a == c.current_action
        up(k) == [controller |->
                    [c EXCEPT !.current_action[k] = Min(100, a[k] + speed)],
                  result |-> TRUE, shown |-> FALSE]
        down(k) == [controller |->
                      [c EXCEPT !.current_action[k] = Max(-100, a[k] - speed)],
                    result |-> TRUE, shown |-> FALSE]
        unknown == [controller |-> c, result |-> FALSE, shown |-> FALSE]
    IN CASE key = <<"w">> -> up(1)
         [] key = <<"s">> -> down(1)
         [] key = <<"a">> -> up(2)
         [] key = <<"d">> -> down(2)
         [] key = <<"q">> -> up(3)
         [] key = <<"e">> -> down(3)
         [] key = <<"r">> -> IF Len(a) > 3 THEN up(4) ELSE unknown
         [] key = <<"f">> -> IF Len(a) > 3 THEN down(4) ELSE unknown
         [] key = <<"t">> -> IF Len(a) > 4 THEN up(5) ELSE unknown
         [] key = <<"g">> -> IF Len(a) > 4 THEN down(5) ELSE unknown
         [] key = <<"+">> ->
              [controller |-> [c EXCEPT !.control_speed = Min(50, speed + 2)],
               result |-> TRUE, shown |-> FALSE]
         [] key = <<"-">> ->
              [controller |-> [c EXCEPT !.control_speed = Max(1, speed - 2)],
               result |-> TRUE, shown |-> FALSE]
         [] key = <<"0">> ->
              [controller |->
                 [c EXCEPT !.current_action = [k \in 1..Len(a) |-> 0]],
               result |-> TRUE, shown |-> FALSE]
         [] key = <<"h">> ->
              [controller |-> c, result |-> TRUE, shown |-> TRUE]
         [] OTHER -> unknown

\* line 310
l15_reset_commands == {<<"0">>, <<"r", "e", "s", "e", "t">>}
\* line 313
l15_keys ==
    {<<"w">>, <<"s">>, <<"a">>, <<"d">>, <<"q">>, <<"e">>, <<"r">>, <<"f">>,
     <<"t">>, <<"g">>, <<"+">>, <<"-">>}

\* lines 304-322: what the session does with one command: the controller
\* afterwards, whether the help was shown, and how the loop goes on
\* ("break" leaves the session, "continue" asks again, "step" simulates)
l15_command(c, user_input) ==
    CASE user_input \in l15_quit ->
           [controller |-> c, shown |-> FALSE, effect |-> "break"]
      [] user_input \in l15_help ->
           [controller |-> c, shown |-> TRUE, effect |-> "continue"]
      [] user_input \in l15_reset_commands ->
           [controller |->
              [c EXCEPT !.current_action =
                            [k \in 1..Len(c.current_action) |-> 0]],
            shown |-> FALSE, effect |-> "step"]
      [] user_input \in l15_keys ->
           [controller |-> update_action(c, user_input).controller,
            shown |-> update_action(c, user_input).shown,
            effect |-> "step"]
      [] user_input = <<>> ->
           [controller |-> c, shown |-> FALSE, effect |-> "step"]
      [] OTHER ->
           [controller |-> c, shown |-> FALSE, effect |-> "continue"]

\* line 288: a controller is at hand, and the user types a command
ctl_main ==
    /\ script = "ctl"
    /\ pc = "main"
    /\ \E c \in Controllers, line \in l15_advertised \cup l15_lines :
        arg' = [controller |-> c, user_input |-> Lower(Strip(line))]
    /\ pc' = "command"
    /\ UNCHANGED <<script, ret, run_state>>

\* lines 304-322
ctl_command ==
    /\ script = "ctl"
    /\ pc = "command"
    /\ ret' = l15_command(arg.controller, arg.user_input)
    /\ pc' = "done"
    /\ UNCHANGED <<script, arg, run_state>>

-----------------------------------------------------------------------------
(* archive/tutorial_02_interactive_control.py and its _fixed variant:      *)
(* create_simple_controller, and one control experiment of the original    *)

\* the values create_simple_controller is called with: those of
\* control_experiments, and others
Strategies == {"random", "balanced", "smart", "aggressive", ""}

\* tutorial_02_interactive_control.py, lines 63-70
t02_create_simple_controller(strategy) ==
    [raised |-> FALSE,
     controller |-> IF strategy = "random" THEN "random"
                    ELSE IF strategy = "balanced" THEN "balanced"
                    ELSE IF strategy = "smart" THEN "smart"
                    ELSE "balanced"]

\* tutorial_02_interactive_control_fixed.py, lines 37-66: each branch
\* defines the local name controller; with no branch taken, return
\* controller raises UnboundLocalError
t2f_create_simple_controller(strategy) ==
    IF strategy = "random" THEN [raised |-> FALSE, controller |-> "random"]
    ELSE IF strategy = "balanced"
    THEN [raised |-> FALSE, controller |-> "balanced"]
    ELSE IF strategy = "smart" THEN [raised |-> FALSE, controller |-> "smart"]
    ELSE [raised |-> TRUE, controller |-> "unbound"]

\* create_simple_controller(strategy) of both files
csc_call ==
    /\ script = "csc"
    /\ pc = "main"
    /\ \E strategy \in Strategies :
        /\ arg' = strategy
        /\ ret' = [t02 |-> t02_create_simple_controller(strategy),
                   t2f |-> t2f_create_simple_controller(strategy)]
    /\ pc' = "done"
    /\ UNCHANGED <<script, run_state>>

\* the "duration" entries of control_experiments (lines 128-153)
t02_durations == <<200, 300, 400>>

\* line 196: if done and step > 5
t02_fell(done, step) == done /\ step > 5

\* line 203: steps_survived = step
t02_steps_survived(step) == step

\* lines 160-183: an experiment begins on the environment of line 105:
\* steps_survived = 0, fell_down = False, max_steps = its duration
t02_experiment ==
    /\ script = "t02"
    /\ pc = "main"
    /\ \E k \in 1..Len(t02_durations) : i' = k
    /\ env' = "live"
    /\ live' = 1
    /\ j' = 0
    /\ steps_survived' = 0
    /\ fell_down' = FALSE
    /\ pc' = "step"
    /\ UNCHANGED <<script, arg, ret, files, env2, bg, step_count,
                   episode_count, flag, answer, response, step_result,
                   unpacked, successful, lafan1_datasets, h>>

\* lines 186-206: one pass of for step in range(max_steps); j is step.
\* A result of five items or of four is unpacked, any other length raises
\* ValueError; except Exception ends the experiment.
t02_step ==
    /\ script = "t02"
    /\ pc = "step"
    /\ \E o \in UseOutcomes(env), n \in StepArities, done \in BOOLEAN :
        /\ o # "ok" => n = 5 /\ ~done
        /\ h' = NoteStep(IF o = "ok" /\ n < 4 THEN "exc" ELSE o, env)
        /\ IF o = "ok" /\ n >= 4
           THEN /\ fell_down' = t02_fell(done, j)
                /\ steps_survived' = IF t02_fell(done, j) THEN steps_survived
                                     ELSE t02_steps_survived(j)
                /\ j' = IF t02_fell(done, j) THEN j ELSE j + 1
                /\ pc' = IF t02_fell(done, j) \/ j + 1 >= t02_durations[i]
                         THEN "done" ELSE "step"
           ELSE /\ pc' = After(o, "done", "done", "crashed")
                /\ UNCHANGED <<j, steps_survived, fell_down>>
    /\ UNCHANGED <<script, arg, ret, files, i, env, env2, live, bg,
                   step_count, episode_count, flag, answer, response,
                   step_result, unpacked, successful, lafan1_datasets>>

-----------------------------------------------------------------------------
(* archive/g1_04_trajectory_generation.py                                   *)

\* lines 7-10: the names the module binds besides its own functions
g104t_module_names ==
    {"np", "plt", "ImitationFactory", "DefaultDatasetConf", "time"}

\* a trajectory of n entries, or the exception that ended the call
Trajectory(n) == [raised |-> FALSE, entries |-> n]
NameError == [raised |-> TRUE, entries |-> 0]

\* lines 12-47, on an environment whose reset and step succeed: line 17
\* reads jax and line 24 reads jnp; a name the module does not bind raises
\* NameError; otherwise one entry is appended per step
generate_g1_standing_trajectory(names, n_steps) ==
    IF "jax" \notin names THEN NameError
    ELSE IF n_steps > 0 /\ "jnp" \notin names THEN NameError
    ELSE Trajectory(n_steps)

\* lines 49-97, likewise: line 53 reads jax, line 63 reads jnp
generate_g1_walking_pattern(names, n_steps) ==
    IF "jax" \notin names THEN NameError
    ELSE IF n_steps > 0 /\ "jnp" \notin names THEN NameError
    ELSE Trajectory(n_steps)

\* lines 147-186 of main on an environment whose reset and step succeed:
\* the two trajectories, the analysis of each, the replay of traj_data[:100]
\* of each; except Exception at line 183 ends main at the first exception
g104t_trajectories(names) ==
    LET standing == generate_g1_standing_trajectory(names, 150)
        walking == generate_g1_walking_pattern(names, 200)
        nothing == [standing |-> 0, walking |-> 0, analysed |-> {},
                    replayed |-> <<>>, raised |-> TRUE]
    IN IF standing.raised THEN nothing
       ELSE IF walking.raised
       THEN [nothing EXCEPT !.standing = standing.entries]
       ELSE [standing |-> standing.entries, walking |-> walking.entries,
             analysed |-> {"standing", "walking"},
             replayed |-> <<Min(100, standing.entries),
                            Min(100, walking.entries)>>,
             raised |-> FALSE]

\* lines 137-145: env = ImitationFactory.make("UnitreeG1")
g104t_make ==
    /\ script = "g104t"
    /\ pc = "main"
    /\ \E o \in Outcomes :
        /\ h' = NoteMake(o, "UnitreeG1:", live)
        /\ env' = IF o = "ok" THEN "live" ELSE env
        /\ live' = IF o = "ok" THEN live + 1 ELSE live
        /\ pc' = After(o, "generate", "done", "crashed")
    /\ UNCHANGED <<script, arg, ret, files, i, j, env2, bg, step_count,
                   episode_count, flag, answer, response, step_result,
                   unpacked, successful, lafan1_datasets, steps_survived,
                   fell_down>>

\* lines 147-186
g104t_generate ==
    /\ script = "g104t"
    /\ pc = "generate"
    /\ ret' = g104t_trajectories(g104t_module_names)
    /\ pc' = "done"
    /\ UNCHANGED <<script, arg, run_state>>

-----------------------------------------------------------------------------
(* lesson_1_8_test_utilities.py : RobotTester and run_full_test_suite      *)

\* lines 544-554: the tests in the order run_full_test_suite runs them
rt_tests ==
    <<"Basic Robot Creation", "Environment Reset", "Environment Step",
      "Dataset Loading", "Rendering System", "Basic Performance",
      "System Stability">>

\* what test_function(*args, **kwargs) does at line 125: returns a true
\* value, returns a false value, raises an Exception, or is interrupted
TestOutcomes == {"true", "false", "exc", "kbd"}

\* lines 113-116
RobotTester == [test_results |-> <<>>, passed |-> 0, failed |-> 0]

\* rt_except when the except clause of run_test catches nothing
rt_except_nothing == {}

\* line 149: except Exception; KeyboardInterrupt is not an Exception
rt_except == {"exc"}

\* rt_error_failed when an ERROR is recorded but not counted
rt_error_uncounted(n) == n

\* line 153: self.failed += 1 in the except clause
rt_error_failed(n) == n + 1

\* lines 118-160: run_test with a test function of outcome o; the tester
\* afterwards, the value returned, and whether the exception left run_test
run_test(self, test_name, o) ==
    LET entry(status) == [name |-> test_name, status |-> status]
    IN CASE o = "true" ->
              [self |-> [self EXCEPT !.passed = @ + 1,
                              !.test_results = Append(@, entry("PASSED"))],
               returned |-> TRUE, propagated |-> FALSE]
         [] o = "false" ->
              [self |-> [self EXCEPT !.failed = @ + 1,
                              !.test_results = Append(@, entry("FAILED"))],
               returned |-> FALSE, propagated |-> FALSE]
         [] o \in rt_except ->
              [self |-> [self EXCEPT !.failed = rt_error_failed(@),
                              !.test_results = Append(@, entry("ERROR"))],
               returned |-> FALSE, propagated |-> FALSE]
         [] OTHER -> [self |-> self, returned |-> FALSE, propagated |-> TRUE]

\* lines 162-170: print_summary: total = passed + failed
print_summary(self) ==
    [total |-> self.passed + self.failed, passed |-> self.passed,
     failed |-> self.failed]

\* line 541: tester = RobotTester()
rt_suite ==
    /\ script = "rt"
    /\ pc = "main"
    /\ arg' = RobotTester
    /\ i' = 1
    /\ pc' = "test"
    /\ UNCHANGED <<script, ret, files, j, env, env2, live, bg, step_count,
                   episode_count, flag, answer, response, step_result,
                   unpacked, successful, lafan1_datasets, steps_survived,
                   fell_down, h>>

\* lines 544-554: tester.run_test(name, test) for the next test of the list;
\* flag is the value run_test returned
rt_run_test ==
    /\ script = "rt"
    /\ pc = "test"
    /\ \E o \in TestOutcomes :
        LET r == run_test(arg, rt_tests[i], o)
        IN /\ arg' = r.self
           /\ flag' = r.returned
           /\ h' = [h EXCEPT !.raised = @ \/ o = "exc",
                             !.kbd = @ \/ o = "kbd"]
           /\ pc' = IF r.propagated THEN "crashed"
                    ELSE IF i < Len(rt_tests) THEN "test" ELSE "summary"
           /\ i' = IF r.propagated THEN i ELSE i + 1
    /\ UNCHANGED <<script, ret, files, j, env, env2, live, bg, step_count,
                   episode_count, answer, response, step_result, unpacked,
                   successful, lafan1_datasets, steps_survived, fell_down>>

\* lines 557-559: tester.print_summary(); return tester
rt_print_summary ==
    /\ script = "rt"
    /\ pc = "summary"
    /\ ret' = print_summary(arg)
    /\ pc' = "done"
    /\ UNCHANGED <<script, arg, run_state>>

-----------------------------------------------------------------------------
(* archive/g1_extended_dataset_recorder.py, archive/g1_simple_recorder.py, *)
(* archive/test_dataset_availability.py and                                *)
(* archive/g1_complete_dataset_recorder.py: the loops over the dataset     *)
(* list.  A list that only grows is kept as its length and its last entry. *)

\* g1_extended_dataset_recorder.py, lines 93-136
xrec_potential_datasets ==
    <<"walk", "run", "jog", "sprint", "walk_slow", "walk_fast",
      "walk_normal", "walk_forward", "walk_backward", "turn_left",
      "turn_right", "turn_around", "sidestep_left", "sidestep_right",
      "strafe_left", "strafe_right", "squat", "squat_deep", "squat_shallow",
      "lunge", "lunge_left", "lunge_right", "jump", "jump_forward",
      "jump_backward", "hop", "leap", "bound", "stand", "stand_still",
      "balance", "sit", "sitdown", "getup", "lie", "liedown", "rest", "step",
      "stepinplace", "march", "step_forward", "step_backward", "crawl",
      "creep", "crouch", "kneel", "bow", "bend", "kick", "punch", "wave",
      "stretch", "reach", "grab", "dance", "dance1", "dance2", "gesture",
      "point", "salute", "recover", "stabilize", "correct", "stumble",
      "slip", "catch">>

\* g1_simple_recorder.py, lines 108-113
srec_datasets_to_record == <<"walk", "squat", "run", "stand">>

\* test_dataset_availability.py, lines 30-41
tda_datasets_to_test ==
    <<"walk", "squat", "stand", "stepinplace", "walk_fast", "walk_slow",
      "jump", "run", "sit", "lie">>

\* g1_complete_dataset_recorder.py, lines 57-79
crec_available_datasets ==
    <<"walk", "run", "stand", "squat", "jump", "walk_slow", "walk_fast",
      "stepinplace", "crawl", "dance", "wave", "walk_forward",
      "walk_backward", "turn_left", "turn_right", "getup", "sitdown", "lie",
      "punch", "kick">>

\* what recording one dataset meets: the video is found afterwards, no video
\* is found, make or play_trajectory raises, or Ctrl+C is pressed
RecordOutcomes == {"recorded", "no_video", "exc", "kbd"}

\* the success list and the failure list before the loop; working counts
\* the datasets that passed the availability test of the complete recorder
NoRecordings ==
    [successful |-> 0, failed |-> 0, working |-> 0,
     last |-> [list |-> "none", item |-> 0]]

\* list.append(entry for item k) on the success list
AppendSuccess(lists, k) ==
    [lists EXCEPT !.successful = @ + 1,
                  !.last = [list |-> "successful", item |-> k]]

\* list.append(entry for item k) on the failure list
AppendFailed(lists, k) ==
    [lists EXCEPT !.failed = @ + 1,
                  !.last = [list |-> "failed", item |-> k]]

\* g1_extended_dataset_recorder.py, lines 13-84: test_and_record_dataset
test_and_record_dataset(o) ==
    CASE o = "recorded" -> [success |-> TRUE, propagated |-> FALSE]
      [] o = "no_video" -> [success |-> FALSE, propagated |-> FALSE]
      [] o = "exc" -> [success |-> FALSE, propagated |-> FALSE]
      [] OTHER -> [success |-> FALSE, propagated |-> TRUE]

\* g1_simple_recorder.py, lines 19-99: record_dataset_video
record_dataset_video(o) ==
    CASE o = "recorded" -> [success |-> TRUE, propagated |-> FALSE]
      [] o = "no_video" -> [success |-> FALSE, propagated |-> FALSE]
      [] o = "exc" -> [success |-> FALSE, propagated |-> FALSE]
      [] OTHER -> [success |-> FALSE, propagated |-> TRUE]

\* test_dataset_availability.py, lines 8-22: test_dataset
test_dataset(o) ==
    CASE o = "ok" -> [success |-> TRUE, propagated |-> FALSE]
      [] o = "exc" -> [success |-> FALSE, propagated |-> FALSE]
      [] OTHER -> [success |-> FALSE, propagated |-> TRUE]

\* crec_except_append when the except clause records no failure
crec_except_unlisted(self, k) == self

\* g1_complete_dataset_recorder.py, lines 199-204: the except clause of
\* record_single_dataset appends to failed_recordings
crec_except_append(self, k) == AppendFailed(self, k)

\* g1_complete_dataset_recorder.py, lines 112-205: record_single_dataset
\* appends to the lists of the recorder itself
record_single_dataset(self, k, o) ==
    CASE o = "recorded" ->
           [self |-> AppendSuccess(self, k), propagated |-> FALSE]
      [] o = "no_video" ->
           [self |-> AppendFailed(self, k), propagated |-> FALSE]
      [] o = "exc" ->
           [self |-> crec_except_append(self, k), propagated |-> FALSE]
      [] OTHER -> [self |-> self, propagated |-> TRUE]

\* the position after item k of a loop over n items
LoopNext(k, n) == IF k < n THEN "item" ELSE "done"

\* history after a call that raised or was interrupted
NoteOutcome(o) ==
    [h EXCEPT !.raised = @ \/ o = "exc", !.kbd = @ \/ o = "kbd"]

\* g1_extended_dataset_recorder.py lines 140-141, g1_simple_recorder.py
\* lines 122-123, test_dataset_availability.py lines 43-44,
\* g1_complete_dataset_recorder.py lines 81-82: the two empty lists
rcl_main ==
    /\ script \in {"xrec", "srec", "tda", "crec"}
    /\ pc = "main"
    /\ arg' = NoRecordings
    /\ i' = 1
    /\ pc' = IF script = "crec" THEN "test" ELSE "item"
    /\ UNCHANGED <<script, ret, files, j, env, env2, live, bg, step_count,
                   episode_count, flag, answer, response, step_result,
                   unpacked, successful, lafan1_datasets, steps_survived,
                   fell_down, h>>

\* g1_extended_dataset_recorder.py, lines 144-159: one pass of the loop
xrec_item ==
    /\ script = "xrec"
    /\ pc = "item"
    /\ \E o \in RecordOutcomes :
        LET r == test_and_record_dataset(o)
        IN /\ arg' = IF r.propagated THEN arg
                     ELSE IF r.success THEN AppendSuccess(arg, i)
                     ELSE AppendFailed(arg, i)
           /\ pc' = IF r.propagated THEN "crashed"
                    ELSE LoopNext(i, Len(xrec_potential_datasets))
           /\ i' = IF r.propagated THEN i ELSE i + 1
           /\ h' = NoteOutcome(o)
    /\ UNCHANGED <<script, ret, files, j, env, env2, live, bg, step_count,
                   episode_count, flag, answer, response, step_result,
                   unpacked, successful, lafan1_datasets, steps_survived,
                   fell_down>>

\* g1_simple_recorder.py, lines 126-145: one pass of the loop
srec_item ==
    /\ script = "srec"
    /\ pc = "item"
    /\ \E o \in RecordOutcomes :
        LET r == record_dataset_video(o)
        IN /\ arg' = IF r.propagated THEN arg
                     ELSE IF r.success THEN AppendSuccess(arg, i)
                     ELSE AppendFailed(arg, i)
           /\ pc' = IF r.propagated THEN "crashed"
                    ELSE LoopNext(i, Len(srec_datasets_to_record))
           /\ i' = IF r.propagated THEN i ELSE i + 1
           /\ h' = NoteOutcome(o)
    /\ UNCHANGED <<script, ret, files, j, env, env2, live, bg, step_count,
                   episode_count, flag, answer, response, step_result,
                   unpacked, successful, lafan1_datasets, steps_survived,
                   fell_down>>

\* test_dataset_availability.py, lines 46-51: one pass of the loop
tda_item ==
    /\ script = "tda"
    /\ pc = "item"
    /\ \E o \in Outcomes :
        LET r == test_dataset(o)
        IN /\ arg' = IF r.propagated THEN arg
                     ELSE IF r.success THEN AppendSuccess(arg, i)
                     ELSE AppendFailed(arg, i)
           /\ pc' = IF r.propagated THEN "crashed"
                    ELSE LoopNext(i, Len(tda_datasets_to_test))
           /\ i' = IF r.propagated THEN i ELSE i + 1
           /\ h' = NoteOutcome(o)
    /\ UNCHANGED <<script, ret, files, j, env, env2, live, bg, step_count,
                   episode_count, flag, answer, response, step_result,
                   unpacked, successful, lafan1_datasets, steps_survived,
                   fell_down>>

\* g1_complete_dataset_recorder.py, lines 91-104 and 216-220: one pass of
\* test_dataset_availability; a dataset whose creation raises is left out
\* of working_datasets; with no working dataset record_all_datasets returns
crec_test ==
    /\ script = "crec"
    /\ pc = "test"
    /\ \E o \in Outcomes :
        LET working == IF o = "ok" THEN arg.working + 1 ELSE arg.working
        IN /\ arg' = [arg EXCEPT !.working = working]
           /\ pc' = IF o = "kbd" THEN "crashed"
                    ELSE IF i < Len(crec_available_datasets) THEN "test"
                    ELSE IF working = 0 THEN "done"
                    ELSE "item"
           /\ i' = IF o = "kbd" THEN i
                   ELSE IF i < Len(crec_available_datasets) THEN i + 1
                   ELSE 1
           /\ h' = NoteOutcome(o)
    /\ UNCHANGED <<script, ret, files, j, env, env2, live, bg, step_count,
                   episode_count, flag, answer, response, step_result,
                   unpacked, successful, lafan1_datasets, steps_survived,
                   fell_down>>

\* g1_complete_dataset_recorder.py, lines 226-243: one pass of the loop
\* over working_datasets; item i is working_datasets[i]
crec_item ==
    /\ script = "crec"
    /\ pc = "item"
    /\ \E o \in RecordOutcomes :
        LET r == record_single_dataset(arg, i, o)
        IN /\ arg' = r.self
           /\ pc' = IF r.propagated THEN "crashed"
                    ELSE LoopNext(i, arg.working)
           /\ i' = IF r.propagated THEN i ELSE i + 1
           /\ h' = NoteOutcome(o)
    /\ UNCHANGED <<script, ret, files, j, env, env2, live, bg, step_count,
                   episode_count, flag, answer, response, step_result,
                   unpacked, successful, lafan1_datasets, steps_survived,
                   fell_down>>

-----------------------------------------------------------------------------
(* simple_tutorial.py : main                                                *)

\* lines 23-27: the candidates, as robot:task
stut_approaches ==
    <<"UnitreeG1:", "UnitreeH1:", "Atlas:">>

\* line 66
stut_max_steps == 500

\* line 35: break after the creation that succeeded
stut_created == "reset"

\* stut_while when the loop condition admits one more pass
stut_while_inclusive(n) == n <= stut_max_steps

\* line 70: while step_count < max_steps
stut_while(n) == n < stut_max_steps

\* line 72: the condition under which the loop resets before a step
stut_needs_reset(n, absorbing) == n = 0 \/ absorbing

\* lines 29-42: the next candidate is created: on success it is bound to
\* env and the loop is left; on an Exception the next one is tried, and
\* after the last one main returns (env is None).  The whole function
\* body is in a try with except Exception, which Ctrl+C passes.
stut_make ==
    /\ script = "stut"
    /\ pc \in {"main", "make"}
    /\ LET k == IF pc = "main" THEN 1 ELSE i
       IN \E o \in Outcomes :
           /\ h' = NoteMake(o, stut_approaches[k], live)
           /\ env' = IF o = "ok" THEN "live" ELSE env
           /\ live' = IF o = "ok" THEN live + 1 ELSE live
           /\ arg' = IF o = "ok" THEN stut_approaches[k] ELSE arg
           /\ pc' = After(o, stut_created,
                          IF k < Len(stut_approaches) THEN "make" ELSE "done",
                          "crashed")
           /\ i' = IF o = "exc" /\ k < Len(stut_approaches) THEN k + 1 ELSE k
    /\ UNCHANGED <<script, ret, files, j, env2, bg, step_count,
                   episode_count, flag, answer, response, step_result,
                   unpacked, successful, lafan1_datasets, steps_survived,
                   fell_down>>

\* line 54: env.reset()
stut_reset ==
    /\ script = "stut"
    /\ pc = "reset"
    /\ \E o \in UseOutcomes(env) :
        /\ h' = NoteCall(o, env)
        /\ pc' = After(o, "render", "done", "crashed")
    /\ UNCHANGED <<script, arg, ret, files, i, j, env, env2, live, bg,
                   step_count, episode_count, flag, answer, response,
                   step_result, unpacked, successful, lafan1_datasets,
                   steps_survived, fell_down>>

\* lines 59-66: env.render(); absorbing = False, step_count = 0; j counts
\* the env.step calls issued, episode_count the resets made in the loop (up
\* to MaxEpisodes)
stut_render ==
    /\ script = "stut"
    /\ pc = "render"
    /\ \E o \in UseOutcomes(env) :
        /\ h' = NoteCall(o, env)
        /\ pc' = After(o, "loop", "done", "crashed")
    /\ flag' = FALSE
    /\ step_count' = 0
    /\ j' = 0
    /\ UNCHANGED <<script, arg, ret, files, i, env, env2, live, bg,
                   episode_count, answer, response, step_result, unpacked,
                   successful, lafan1_datasets, steps_survived, fell_down>>

\* lines 72-77: at the top of the loop body, env.reset() and
\* absorbing = False
stut_loop_reset ==
    /\ script = "stut"
    /\ pc = "loop"
    /\ stut_needs_reset(step_count, flag)
    /\ \E o \in UseOutcomes(env) :
        /\ h' = NoteCall(o, env)
        /\ pc' = After(o, "step", "done", "crashed")
        /\ flag' = IF o = "ok" THEN FALSE ELSE flag
        /\ episode_count' = IF o = "ok" /\ episode_count < MaxEpisodes
                            THEN episode_count + 1 ELSE episode_count
    /\ UNCHANGED <<script, arg, ret, files, i, j, env, env2, live, bg,
                   step_count, answer, response, step_result, unpacked,
                   successful, lafan1_datasets, steps_survived, fell_down>>

\* line 85: next_state, reward, absorbing, done, info = env.step(action)
stut_step ==
    /\ script = "stut"
    /\ pc = "step" \/ (pc = "loop" /\ ~stut_needs_reset(step_count, flag))
    /\ \E o \in UseOutcomes(env), absorbing \in BOOLEAN :
        /\ o # "ok" => ~absorbing
        /\ h' = NoteStep(o, env)
        /\ flag' = IF o = "ok" THEN absorbing ELSE flag
        /\ pc' = After(o, "loop_render", "done", "crashed")
    /\ j' = j + 1
    /\ UNCHANGED <<script, arg, ret, files, i, env, env2, live, bg,
                   step_count, episode_count, answer, response, step_result,
                   unpacked, successful, lafan1_datasets, steps_survived,
                   fell_down>>

\* lines 88-96: env.render() and step_count += 1; when the loop
\* condition fails the closing lines report the steps (lines 101-107)
stut_loop_render ==
    /\ script = "stut"
    /\ pc = "loop_render"
    /\ \E o \in UseOutcomes(env) :
        /\ h' = NoteCall(o, env)
        /\ step_count' = IF o = "ok" THEN step_count + 1 ELSE step_count
        /\ pc' = After(o, IF stut_while(step_count + 1) THEN "loop"
                          ELSE "done", "done", "crashed")
        /\ ret' = IF o = "ok" /\ ~stut_while(step_count + 1)
                  THEN [total_steps |-> stut_max_steps] ELSE ret
    /\ UNCHANGED <<script, arg, files, i, j, env, env2, live, bg,
                   episode_count, flag, answer, response, step_result,
                   unpacked, successful, lafan1_datasets, steps_survived,
                   fell_down>>

-----------------------------------------------------------------------------
(* test_locomujoco_examples.py : test_basic_locomujoco                      *)

\* lines 23-28: the candidates, as robot:task
tle_environments_to_try ==
    <<"UnitreeG1:", "UnitreeG1:stand", "UnitreeG1:walk", "UnitreeH1:">>

\* line 67
tle_max_steps == 500

\* tle_created when the loop over the candidates goes on after a success
tle_created_no_break == "make"

\* line 39: break after the creation that succeeded
tle_created == "reset"

\* line 71: while step_count < max_steps
tle_while(n) == n < tle_max_steps

\* line 73: the condition under which the loop resets before a step
tle_needs_reset(n, absorbing) == absorbing

\* lines 30-46: the next candidate is created: on success it is bound to
\* env and the loop is left; on an Exception the next one is tried, and
\* after the last one test_basic_locomujoco returns (env is None).  The
\* whole function body is in a try with except Exception, which Ctrl+C
\* passes.
tle_make ==
    /\ script = "tle"
    /\ pc \in {"main", "make"}
    /\ LET k == IF pc = "main" THEN 1 ELSE i
           n == Len(tle_environments_to_try)
       IN \E o \in Outcomes :
           /\ h' = NoteMake(o, tle_environments_to_try[k], live)
           /\ env' = IF o = "ok" THEN "live" ELSE env
           /\ live' = IF o = "ok" THEN live + 1 ELSE live
           /\ arg' = IF o = "ok" THEN tle_environments_to_try[k] ELSE arg
           /\ pc' = After(o, tle_created,
                          IF k < n THEN "make" ELSE "done",
                          "crashed")
           /\ i' = IF o = "exc" /\ k < n THEN k + 1 ELSE k
    /\ UNCHANGED <<script, ret, files, j, env2, bg, step_count,
                   episode_count, flag, answer, response, step_result,
                   unpacked, successful, lafan1_datasets, steps_survived,
                   fell_down>>

\* line 57: env.reset()
tle_reset ==
    /\ script = "tle"
    /\ pc = "reset"
    /\ \E o \in UseOutcomes(env) :
        /\ h' = NoteCall(o, env)
        /\ pc' = After(o, "render", "done", "crashed")
    /\ UNCHANGED <<script, arg, ret, files, i, j, env, env2, live, bg,
                   step_count, episode_count, flag, answer, response,
                   step_result, unpacked, successful, lafan1_datasets,
                   steps_survived, fell_down>>

\* lines 61-67: env.render(); absorbing = False, step_count = 0; j counts
\* the env.step calls issued, episode_count the resets made in the loop (up
\* to MaxEpisodes)
tle_render ==
    /\ script = "tle"
    /\ pc = "render"
    /\ \E o \in UseOutcomes(env) :
        /\ h' = NoteCall(o, env)
        /\ pc' = After(o, "loop", "done", "crashed")
    /\ flag' = FALSE
    /\ step_count' = 0
    /\ j' = 0
    /\ UNCHANGED <<script, arg, ret, files, i, env, env2, live, bg,
                   episode_count, answer, response, step_result, unpacked,
                   successful, lafan1_datasets, steps_survived, fell_down>>

\* lines 73-77: at the top of the loop body, env.reset() and
\* absorbing = False
tle_loop_reset ==
    /\ script = "tle"
    /\ pc = "loop"
    /\ tle_needs_reset(step_count, flag)
    /\ \E o \in UseOutcomes(env) :
        /\ h' = NoteCall(o, env)
        /\ pc' = After(o, "step", "done", "crashed")
        /\ flag' = IF o = "ok" THEN FALSE ELSE flag
        /\ episode_count' = IF o = "ok" /\ episode_count < MaxEpisodes
                            THEN episode_count + 1 ELSE episode_count
    /\ UNCHANGED <<script, arg, ret, files, i, j, env, env2, live, bg,
                   step_count, answer, response, step_result, unpacked,
                   successful, lafan1_datasets, steps_survived, fell_down>>

\* line 83: next_state, reward, absorbing, done, info = env.step(action)
tle_step ==
    /\ script = "tle"
    /\ pc = "step" \/ (pc = "loop" /\ ~tle_needs_reset(step_count, flag))
    /\ \E o \in UseOutcomes(env), absorbing \in BOOLEAN :
        /\ o # "ok" => ~absorbing
        /\ h' = NoteStep(o, env)
        /\ flag' = IF o = "ok" THEN absorbing ELSE flag
        /\ pc' = After(o, "loop_render", "done", "crashed")
    /\ j' = j + 1
    /\ UNCHANGED <<script, arg, ret, files, i, env, env2, live, bg,
                   step_count, episode_count, answer, response, step_result,
                   unpacked, successful, lafan1_datasets, steps_survived,
                   fell_down>>

\* lines 86-93: env.render() and step_count += 1; when the loop
\* condition fails the closing lines report the steps (lines 95-96)
tle_loop_render ==
    /\ script = "tle"
    /\ pc = "loop_render"
    /\ \E o \in UseOutcomes(env) :
        /\ h' = NoteCall(o, env)
        /\ step_count' = IF o = "ok" THEN step_count + 1 ELSE step_count
        /\ pc' = After(o, IF tle_while(step_count + 1) THEN "loop"
                          ELSE "done", "done", "crashed")
        /\ ret' = IF o = "ok" /\ ~tle_while(step_count + 1)
                  THEN [total_steps |-> step_count + 1] ELSE ret
    /\ UNCHANGED <<script, arg, files, i, j, env, env2, live, bg,
                   episode_count, flag, answer, response, step_result,
                   unpacked, successful, lafan1_datasets, steps_survived,
                   fell_down>>

-----------------------------------------------------------------------------
(* The next-state relation *)

Next ==
    \/ rec_make \/ rec_play
    \/ tut1_make \/ tut1_fallback \/ tut1_create_dataset
    \/ tut1_motion_make \/ tut1_play
    \/ qbd_make \/ qbd_set_background \/ qbd_reset \/ qbd_step
    \/ qbd_after_steps
    \/ l13_make \/ l13_play
    \/ g103_make \/ g103_create_dataset \/ g103_demo_make \/ g103_play
    \/ g101_make \/ g101_create_dataset \/ g101_single_make \/ g101_play
    \/ g101_fallback_make \/ g101_fallback_play
    \/ tg1_make \/ tg1_task_make \/ tg1_final_make \/ tg1_reset
    \/ tg1_render \/ tg1_episode_reset \/ tg1_step \/ tg1_loop_render
    \/ l11_check_system \/ l11_create_basic_robot
    \/ l11_test_basic_movement \/ l11_step \/ l11_reset_done
    \/ l11_cleanup
    \/ bcg_method_1_environment_variable \/ bcg_method_4_make
    \/ bcg_method_4_reset \/ bcg_example_background \/ bcg_example_make
    \/ bcg_reset \/ bcg_step
    \/ smv_prompt \/ smv_proceed \/ smv_make \/ smv_play
    \/ l15_main \/ l15_demo_make \/ l15_demo_play \/ l15_session_make
    \/ l15_session_reset \/ l15_prompt \/ l15_step \/ l15_render
    \/ l15_reset \/ l15_session_end
    \/ exp_make \/ exp_info \/ exp_prompt \/ exp_record_make
    \/ exp_record_play
    \/ laf_make \/ laf_play \/ laf_prompt \/ laf_record_make
    \/ laf_record_play
    \/ l18_make \/ l18_reset \/ l18_step
    \/ t2f_make \/ t2f_reset \/ t2f_step \/ t2f_render
    \/ asz_env \/ asz_l18 \/ asz_l15 \/ asz_l16 \/ asz_g104n
    \/ dnc_main \/ dnc_make \/ dnc_play \/ dnc_check
    \/ ctl_main \/ ctl_command
    \/ csc_call \/ t02_experiment \/ t02_step
    \/ g104t_make \/ g104t_generate
    \/ rt_suite \/ rt_run_test \/ rt_print_summary
    \/ rcl_main \/ xrec_item \/ srec_item \/ tda_item \/ crec_test \/ crec_item
    \/ stut_make \/ stut_reset \/ stut_render \/ stut_loop_reset \/ stut_step
    \/ stut_loop_render
    \/ tle_make \/ tle_reset \/ tle_render \/ tle_loop_reset \/ tle_step
    \/ tle_loop_render

Spec == Init /\ [][Next]_vars


\* the user's quit commands at the prompts of the two interactive loops
smv_quit == smv_prompt /\ pc' = "done" /\ h'.kbd = h.kbd
l15_quit_command ==
    l15_prompt /\ pc' = "end" /\ h'.kbd = h.kbd /\ h'.eof = h.eof

\* every enabled step of the script is eventually taken, and a user who is
\* prompted again and again eventually enters a quit command
FairSpec ==
    /\ Init
    /\ [][Next]_vars
    /\ WF_vars(Next)
    /\ SF_vars(smv_quit)
    /\ SF_vars(l15_quit_command)

-----------------------------------------------------------------------------
(* Properties *)

\* the entry point is left, by return or by an exception
Terminal == pc \in {"done", "crashed"}

\* the call sites (script, position) that lie outside every try block:
\* g1_01_record_datasets lines 25 and 42; tutorial_01 lines 76-80 and 94;
\* quick_background_demo lines 41, 49, 59 and 62; test_g1_locomujoco lines
\* 57 and 61; background_color_guide lines 148, 150, 159 and 162;
\* g1_lafan1_demo lines 19-75; tutorial_02_interactive_control_fixed line 169
UnguardedSites ==
    {<<"rec", "main">>, <<"rec", "make">>, <<"rec", "play">>,
     <<"tut1", "fallback">>, <<"tut1", "create_dataset">>,
     <<"qbd", "main">>, <<"qbd", "reset">>, <<"qbd", "reset_done">>,
     <<"qbd", "step">>,
     <<"tg1", "reset">>, <<"tg1", "render">>,
     <<"bcg", "example_make">>, <<"bcg", "reset">>,
     <<"bcg", "reset_done">>, <<"bcg", "step">>,
     <<"laf", "main">>, <<"laf", "make">>, <<"laf", "play">>,
     <<"t2f", "reset">>}

\* C1 as stated: an exception raised by an external-library call never
\* leaves the entry point of any script (a crash is only ever due to
\* Ctrl+C or to end-of-file at a prompt).
C1_NothingPropagates == pc = "crashed" => (h.kbd \/ h.eof)

\* C1 amended: an exception raised by an external-library call leaves the
\* entry point only when the call lies outside every try block; raised at
\* any other call site it is caught by the enclosing except Exception.
C1_CaughtInsideTry ==
    [][(pc' = "crashed" /\ h'.kbd = h.kbd /\ h'.eof = h.eof)
         => <<script, pc>> \in UnguardedSites]_vars

\* a library call of tutorial_01 raised inside a try block and main returned
C1_Witness == script = "tut1" /\ h.raised /\ pc = "done"

\* C2 as stated: whenever a script is over (not by Ctrl+C or end-of-file),
\* every loop over a fixed list that it entered attempted all items of the
\* list, each once and in list order, whatever failed.
C2_EveryItemAttempted ==
    (Terminal /\ ~h.kbd /\ ~h.eof)
        => (h.attempted = h.listLen /\ h.inOrder /\ h.complete)

\* the scripts whose list loops handle the failure of an item inside the
\* loop body
SkippingScripts == {"tut1", "l13", "smv", "exp", "laf"}

\* C2 amended: in lesson_1_3, tutorial_01, g1_slow_motion_viewer, the
\* dataset explorer and g1_lafan1_demo's recorder a failed item is skipped
\* and every item of the list is attempted once, in order; in
\* g1_01_record_datasets, g1_03_interactive_control and
\* g1_01_basic_datasets no item is attempted after a failed one.
C2_SkipOrStop ==
    /\ (script \in SkippingScripts /\ Terminal /\ ~h.kbd /\ ~h.eof)
          => (h.attempted = h.listLen /\ h.inOrder /\ h.complete)
    /\ (script \in {"rec", "g103", "g101"} /\ h.failedItem)
          => pc \in {"done", "crashed", "fallback_make", "fallback_play"}

\* lesson_1_3 finished its list although one of the motions failed
C2_Witness ==
    /\ script = "l13"
    /\ pc = "done"
    /\ h.failedItem
    /\ h.attempted = Len(l13_motion_list)
    /\ successful = Len(l13_motion_list) - 1

\* C3: no script calls reset, step, render, play_trajectory or
\* create_dataset through a name that holds no successfully created
\* environment.
C3_NoUseWithoutHandle == ~h.badUse

\* every creation of test_g1_locomujoco failed and main returned without
\* touching an environment
C3_Witness ==
    /\ script = "tg1"
    /\ pc = "done"
    /\ env = "unbound"
    /\ i = Len(tg1_tasks)
    /\ ~h.kbd


\* C4 as stated: in every run in which no external call raises and the
\* user does not press Ctrl+C, the script reaches the end of its entry
\* point.
C4_AlwaysReturns == <>(pc = "done" \/ h.raised \/ h.eof \/ h.kbd)

\* C4 amended: every script but test_g1_locomujoco reaches the end of its
\* entry point when no call raises and Ctrl+C is not pressed (at the
\* prompts of g1_slow_motion_viewer and lesson_1_5, once the user enters a
\* quit command); the simulation loop of test_g1_locomujoco is only ever
\* left through an exception or Ctrl+C.
C4_ReturnsUnlessTg1 ==
    /\ script # "tg1" => <>(pc = "done" \/ h.raised \/ h.eof \/ h.kbd)
    /\ [](script = "tg1" /\ pc = "done" => h.raised \/ h.kbd)

\* the session of lesson_1_5 ran into its step limit and main returned,
\* with no call raising and no Ctrl+C
C4_Witness ==
    /\ script = "l15"
    /\ pc = "done"
    /\ step_count >= max_steps
    /\ ~h.raised /\ ~h.eof /\ ~h.kbd

\* the unpacking the claim describes, of result r into the names u
Conforms(r, u) ==
    /\ ~u.raised
    /\ u.bound = {"obs", "reward", "done", "truncated", "info"}
    /\ u.obs = r[1] /\ u.reward = r[2] /\ u.done = r[3]
    /\ u.truncated = (IF Len(r) = 5 THEN r[4] ELSE FALSE)
    /\ u.info = (IF Len(r) = 5 THEN r[5] ELSE IF Len(r) = 4 THEN r[4]
                 ELSE "{}")

\* C5 as stated: in lesson_1_1, lesson_1_8 and tutorial_02_fixed a step
\* result of length 5, 4 or 3 is unpacked without raising into the
\* observation, reward and termination flag of positions 0 to 2, with
\* truncated = False and info = {} where the result has none.
C5_EveryUnpackConforms ==
    (script \in {"l11", "l18", "t2f"} /\ step_result # <<>>)
        => Conforms(step_result, unpacked)

\* C5 amended: lesson_1_8 unpacks as stated; lesson_1_1 does so for
\* lengths 5 and 4 and raises ValueError on length 3 (caught by the except
\* of test_basic_movement, which ends the test); tutorial_02_fixed takes
\* the first three items for every length without raising, but assigns
\* truncated only for length 5, and info = {} for length 3.
C5_UnpackPerScript ==
    step_result # <<>> =>
        CASE script = "l18" -> Conforms(step_result, unpacked)
          [] script = "l11" ->
                IF Len(step_result) >= 4
                THEN Conforms(step_result, unpacked)
                ELSE unpacked.raised /\ pc \notin {"step", "reset_done"}
          [] script = "t2f" ->
                /\ ~unpacked.raised
                /\ unpacked.obs = step_result[1]
                /\ unpacked.reward = step_result[2]
                /\ unpacked.done = step_result[3]
                /\ "truncated" \in unpacked.bound <=> Len(step_result) = 5
                /\ Len(step_result) = 5 =>
                       Conforms(step_result, unpacked)
                /\ Len(step_result) = 4 => unpacked.info = step_result[4]
                /\ Len(step_result) = 3 => unpacked.info = "{}"
          [] OTHER -> TRUE

\* lesson_1_1 received a result of length 3 and left the movement test
C5_Witness ==
    /\ script = "l11"
    /\ Len(step_result) = 3
    /\ unpacked.raised
    /\ pc = "cleanup"

TwoHandleScripts == {"tut1", "g103", "g101"}

C7_AssignedBeforeCreation == ~h.bgLate

\* C8: in g1_comprehensive_dataset_explorer and g1_lafan1_demo an
\* environment is created for recording, or a recording call is made, only
\* if the trimmed, lower-cased answer to the y/N prompt is 'y' or 'yes'.
C8_RecordingOnlyAfterYes ==
    (script \in {"exp", "laf"} /\ (h.recording \/ pc \in {"record",
                                                           "record_play"}))
        => Lower(Strip(answer)) \in {<<"y">>, <<"y", "e", "s">>}

\* the explorer records after the answer " YES "
C8_Witness ==
    /\ script = "exp"
    /\ h.recording
    /\ pc = "record_play"
    /\ answer = <<" ", "Y", "E", "S", " ">>

\* C9 as stated: in test_g1_locomujoco, lesson_1_5 and
\* g1_slow_motion_viewer a KeyboardInterrupt raised at any point prints the
\* friendly message and lets the entry point return normally.
C9_AlwaysFriendly ==
    (script \in {"tg1", "l15", "smv"} /\ h.kbd)
        => (pc # "crashed" /\ h.friendly)

\* the calls of these scripts made outside the try statement that has the
\* except KeyboardInterrupt clause
SetupSites ==
    {<<"tg1", "main">>, <<"tg1", "task_make">>, <<"tg1", "final_make">>,
     <<"tg1", "reset">>, <<"tg1", "render">>,
     <<"l15", "demo">>, <<"l15", "demo_play">>, <<"l15", "session">>,
     <<"l15", "session_reset">>}

\* C9 amended: a KeyboardInterrupt raised inside the main loop (the while
\* loop of test_g1_locomujoco, of the session of lesson_1_5, and of
\* g1_slow_motion_viewer) ends the loop with the friendly message and the
\* entry point returns; one raised during the set-up before that loop
\* (environment creation, first reset and render, the control-type
\* demonstration) propagates with a traceback.
C9_FriendlyInsideLoop ==
    /\ [][(script \in {"tg1", "l15", "smv"} /\ h'.kbd /\ ~h.kbd)
            => IF <<script, pc>> \in SetupSites
               THEN pc' = "crashed" /\ ~h'.friendly
               ELSE pc' \in {"done", "end"} /\ h'.friendly]_vars
    /\ []((script \in {"tg1", "l15", "smv"} /\ h.kbd /\ h.friendly)
            => pc \in {"done", "end"})

\* Ctrl+C in the simulation loop of test_g1_locomujoco
C9_Witness ==
    /\ script = "tg1"
    /\ h.kbd /\ h.friendly
    /\ pc = "done"
    /\ env = "live"

ReissuingSites ==
    {<<"g101", "fallback_make">>, <<"bcg", "example_make">>,
     <<"t2f", "step">>}

C11_FallbacksAgree ==
    (script = "asz" /\ pc = "done") =>
        LET expected ==
                IF arg.has_action_size THEN arg.action_size
                ELSE IF arg.has_shape /\ Len(arg.shape) > 0
                THEN arg.shape[1]
                ELSE 23
        IN \A c \in {"l18", "l15", "l16", "g104n"} :
               ~ret[c].raised /\ ret[c].value = expected


\* C12: every dataset that explore_default_datasets returned was found
\* available (its creation and trajectory query succeeded), so the total
\* printed before the prompt counts, and the recording after 'y' is asked
\* for, only datasets that were found available.
C12_ReturnedWereAvailable ==
    script = "exp" =>
        /\ pc \in {"prompt", "record", "record_play"} =>
               \A k \in 1..Len(exp_default_datasets) : k # h.missed
        /\ (h.recording /\ pc = "record_play"
            /\ i <= Len(exp_default_datasets)) => i # h.missed


\* C13: whenever record_dance_video returns a path for a dance, the file at
\* that path was produced by recording that dance in that call, never by
\* an earlier dance of the loop or by an earlier run.
C13_VideoOfThisDance ==
    (script = "dnc" /\ ret # <<>> /\ ret.video_file # "None")
        => ret.content = ret.dance


-----------------------------------------------------------------------------
(* C14 *)

\* what the help text promises for a command: joint k (entry k + 1) moves by
\* the control speed within [-1, 1] and nothing else moves, a mode key sets
\* the mode, + and - change the speed, x leaves, h shows the help
C14_Promised(c, key, r) ==
    LET a == c.current_action
        b == r.controller.current_action
        joint(k, d) ==
            /\ Len(b) = Len(a)
            /\ \A n \in 1..Len(a) :
                b[n] = IF n = k THEN Max(-100, Min(100, a[n] + d)) ELSE a[n]
            /\ r.controller.control_speed = c.control_speed
            /\ r.effect # "break"
        mode(m) == r.controller.control_mode = m /\ r.effect # "break"
    IN CASE key = <<"w">> -> joint(1, c.control_speed)
         [] key = <<"s">> -> joint(1, -c.control_speed)
         [] key = <<"a">> -> joint(2, c.control_speed)
         [] key = <<"d">> -> joint(2, -c.control_speed)
         [] key = <<"q">> -> joint(3, c.control_speed)
         [] key = <<"e">> -> joint(3, -c.control_speed)
         [] key = <<"r">> -> joint(4, c.control_speed)
         [] key = <<"f">> -> joint(4, -c.control_speed)
         [] key = <<"t">> -> joint(5, c.control_speed)
         [] key = <<"g">> -> joint(5, -c.control_speed)
         [] key = <<"1">> -> mode("individual")
         [] key = <<"2">> -> mode("upper")
         [] key = <<"3">> -> mode("lower")
         [] key = <<"4">> -> mode("preset")
         [] key = <<"+">> ->
              /\ r.controller.control_speed >= c.control_speed
              /\ r.controller.control_speed > c.control_speed
                    \/ c.control_speed = 50
              /\ r.effect # "break"
         [] key = <<"-">> ->
              /\ r.controller.control_speed <= c.control_speed
              /\ r.controller.control_speed < c.control_speed
                    \/ c.control_speed = 1
              /\ r.effect # "break"
         [] key = <<"x">> -> r.effect = "break"
         [] key = <<"h">> -> r.shown /\ r.effect # "break"

\* C14: in interactive_control_session every command the help text lists
\* has the effect the help text gives for it; in particular q raises joint
\* 2 by the control speed, as e lowers it, and x leaves the control session.
\* The code does not do this: q is taken as a request to quit at line 304,
\* and x and the mode keys 1 to 4 are unknown commands at line 320.
C14_HelpCommandsWork ==
    (script = "ctl" /\ pc = "done" /\ arg.user_input \in l15_advertised)
        => C14_Promised(arg.controller, arg.user_input, ret)


-----------------------------------------------------------------------------
(* C15 *)

\* C15: interactive_control_session never simulates more than max_steps
\* counted frames: step_count <= max_steps at every point of the session
\* and when it ends.  The code does not keep this: step_count is counted
\* once per frame inside the round of l15_frames frames (line 340), and is
\* compared with max_steps only before a command is read (line 298).
C15_WithinMaxSteps == script = "l15" => step_count <= max_steps


-----------------------------------------------------------------------------
(* C16 *)

\* C16: create_simple_controller returns a controller for every strategy
\* value, the balanced one for any value other than "random" or "smart",
\* in tutorial_02_interactive_control and in its fixed variant.  The fixed
\* variant has no branch for other values and raises UnboundLocalError.
C16_AlwaysAController ==
    (script = "csc" /\ pc = "done") =>
        \A v \in {"t02", "t2f"} :
            /\ ~ret[v].raised
            /\ ret[v].controller = IF arg \in {"random", "smart"} THEN arg
                                   ELSE "balanced"

-----------------------------------------------------------------------------
(* C17 *)

\* the experiment of the fixed variant that has just ended
C17_t2f_ended ==
    /\ script = "t2f"
    /\ env = "live"
    /\ (pc = "reset" /\ i > 1) \/ pc = "done"

\* C17: when a control experiment ends, in a run in which no call raised,
\* steps_survived is the number of steps completed before the fall was
\* detected (j, the index of the step that detected it), and the
\* experiment's duration when no fall was detected; in the original
\* tutorial and in the fixed variant.  The original reports one step less.
C17_StepsSurvived ==
    /\ (script = "t02" /\ pc = "done" /\ ~h.raised)
          => steps_survived = IF fell_down THEN j ELSE t02_durations[i]
    /\ (C17_t2f_ended /\ ~h.raised)
          => steps_survived =
                 IF fell_down THEN j
                 ELSE t2f_durations[IF pc = "reset" THEN i - 1 ELSE i]


-----------------------------------------------------------------------------
(* C18 *)

\* C18: when the environment can be created and stepped, main of
\* g1_04_trajectory_generation generates a standing trajectory of exactly
\* 150 entries and a walking trajectory of exactly 200 entries, analyses
\* both, and replays the first 100 steps of each.  The module never imports
\* jax or jnp, so the first generation raises NameError and main ends in
\* its except clause with no trajectory.
C18_TrajectoriesGenerated ==
    (script = "g104t" /\ pc = "done" /\ env = "live") =>
        /\ ret.standing = 150
        /\ ret.walking = 200
        /\ ret.analysed = {"standing", "walking"}
        /\ ret.replayed = <<100, 100>>


-----------------------------------------------------------------------------
(* C19 *)

\* C19 as stated: in the loop of test_g1_locomujoco, whenever env.step has
\* returned absorbing or done, the next call on the environment is
\* env.reset, after which step_count is 0 and episode_count has grown by
\* exactly one.
C19_ResetFollowsEnd ==
    [][(script = "tg1" /\ flag)
         => (tg1_episode_reset
               /\ ((pc' = "step" /\ episode_count < MaxEpisodes)
                      => /\ step_count' = 0
                         /\ episode_count' = episode_count + 1))]_vars

\* C19 amended: after a step that returned absorbing or done the next call
\* on the environment is env.render (line 95); when it returns, step_count
\* is max_steps_per_episode and the call after it is env.reset, never
\* env.step; a reset that returns leaves step_count = 0 and episode_count
\* one higher (for the episodes the model counts, up to MaxEpisodes).  A
\* render or reset that raises ends the loop instead.
C19_RenderThenReset ==
    /\ [][(script = "tg1" /\ flag)
            => /\ tg1_loop_render
               /\ pc' = "loop" => (step_count' = max_steps_per_episode
                                     /\ ~flag')]_vars
    /\ [][(script = "tg1" /\ pc = "loop"
             /\ step_count >= max_steps_per_episode)
            => /\ tg1_episode_reset
               /\ ~tg1_step
               /\ pc' = "step" => step_count' = 0
               /\ (pc' = "step" /\ episode_count < MaxEpisodes)
                     => episode_count' = episode_count + 1]_vars

\* the first episode has been reset, and the step at step_count 3 of the
\* next one returned absorbing or done: render is the call about to be made
C19_Witness ==
    /\ script = "tg1"
    /\ pc = "loop_render"
    /\ flag
    /\ step_count = 3
    /\ episode_count = 1

-----------------------------------------------------------------------------
(* C20 *)

\* C20: in the loop of test_g1_locomujoco step_count stays within
\* 0..max_steps_per_episode, and env.step is called only while
\* 0 <= step_count < max_steps_per_episode.
C20_StepCountInRange ==
    /\ [](script = "tg1" => step_count \in 0..max_steps_per_episode)
    /\ [][tg1_step => (0 <= step_count
                         /\ step_count < max_steps_per_episode)]_vars

\* the step after the reset of an episode that ran to its last step
C20_Witness ==
    /\ script = "tg1"
    /\ pc = "loop_render"
    /\ episode_count = 1
    /\ step_count = 0


-----------------------------------------------------------------------------
(* C21 *)

\* the number of entries of test_results whose status is in the set S
C21_Count(results, S) ==
    Cardinality({k \in 1..Len(results) : results[k].status \in S})

\* C21: after any sequence of RobotTester.run_test calls, passed + failed is
\* the number of entries of test_results, passed is the number of entries
\* with status PASSED, and failed the number with status FAILED or ERROR.
C21_CountsMatchResults ==
    (script = "rt" /\ pc \in {"test", "summary", "done", "crashed"}) =>
        /\ arg.passed + arg.failed = Len(arg.test_results)
        /\ arg.passed = C21_Count(arg.test_results, {"PASSED"})
        /\ arg.failed = C21_Count(arg.test_results, {"FAILED", "ERROR"})

\* seven tests were run; some passed, some failed and some raised
C21_Witness ==
    /\ script = "rt"
    /\ pc = "done"
    /\ arg.passed = 3
    /\ arg.failed = 4
    /\ C21_Count(arg.test_results, {"ERROR"}) = 2
    /\ C21_Count(arg.test_results, {"FAILED"}) = 2

-----------------------------------------------------------------------------
(* C22 *)

\* C22: run_test never lets an exception (of class Exception) raised by the
\* test function propagate: it records an ERROR entry and returns False; so
\* when Ctrl+C is not pressed run_full_test_suite runs all seven tests in
\* the listed order and its summary total is 7, whatever the outcomes.
C22_SuiteRunsAllTests ==
    /\ [][(script = "rt" /\ pc = "test" /\ h'.raised /\ ~h.raised)
            => /\ pc' # "crashed"
               /\ ~flag'
               /\ arg'.test_results =
                      Append(arg.test_results,
                             [name |-> rt_tests[i], status |-> "ERROR"])]_vars
    /\ [](script = "rt" /\ pc = "crashed" => h.kbd)
    /\ [](script = "rt" /\ pc = "done" =>
            /\ Len(arg.test_results) = Len(rt_tests)
            /\ \A k \in 1..Len(rt_tests) :
                   arg.test_results[k].name = rt_tests[k]
            /\ ret.total = 7)

\* the suite is over and every one of its tests raised an exception
C22_Witness ==
    /\ script = "rt"
    /\ pc = "done"
    /\ ret.total = 7
    /\ C21_Count(arg.test_results, {"ERROR"}) = 7


-----------------------------------------------------------------------------
(* C23 *)

\* the recorder and availability scripts, and the dataset list of each
C23_Scripts == {"xrec", "srec", "tda", "crec"}
C23_Listed ==
    CASE script = "xrec" -> xrec_potential_datasets
      [] script = "srec" -> srec_datasets_to_record
      [] script = "tda" -> tda_datasets_to_test
      [] script = "crec" -> crec_available_datasets

\* a pass of the loop puts its dataset (item i) on exactly one of the two
\* lists, once
C23_OnePerPass ==
    [][(script \in C23_Scripts /\ pc = "item" /\ pc' # "crashed")
         => /\ arg'.last.item = i
            /\ \/ /\ arg'.last.list = "successful"
                  /\ arg'.successful = arg.successful + 1
                  /\ arg'.failed = arg.failed
               \/ /\ arg'.last.list = "failed"
                  /\ arg'.failed = arg.failed + 1
                  /\ arg'.successful = arg.successful]_vars

\* C23 as stated: in every recorder and availability script, after the loop
\* over the dataset list each listed dataset is in exactly one of the
\* success list and the failure list, so the two reported counts sum to
\* the number of datasets tested.
C23_ListsCoverListed ==
    /\ C23_OnePerPass
    /\ [](script \in C23_Scripts /\ pc = "done"
            => arg.successful + arg.failed = Len(C23_Listed))

\* C23 amended: in g1_extended_dataset_recorder, g1_simple_recorder and
\* test_dataset_availability every listed dataset is in exactly one of the
\* two lists after the loop and the counts sum to the length of the list;
\* g1_complete_dataset_recorder records only the datasets that passed its
\* availability test: each of those is in exactly one list and the counts
\* sum to their number, the others are in neither list.
C23_ListsCoverLooped ==
    /\ C23_OnePerPass
    /\ [](script \in C23_Scripts /\ pc \in {"item", "done"}
            => arg.successful + arg.failed
                 = IF pc = "item" THEN i - 1
                   ELSE IF script = "crec" THEN arg.working
                   ELSE Len(C23_Listed))
    /\ [](script = "crec" /\ pc # "main"
            => arg.working <= Len(crec_available_datasets))

\* the complete recorder is over: two of its listed datasets were not
\* available, the other eighteen are on the two lists
C23_Witness ==
    /\ script = "crec"
    /\ pc = "done"
    /\ arg.working = Len(crec_available_datasets) - 2
    /\ arg.successful = 11
    /\ arg.failed = 7

-----------------------------------------------------------------------------
(* The fixed-length simulation loops                                       *)

C24_Scripts == {"stut", "tle"}

\* C24: the simulation loops of simple_tutorial and test_basic_locomujoco
\* never issue more than 500 env.step calls, and when the loop has run to
\* its end (the closing report is made) they have issued exactly 500,
\* whether or not episodes ended and were reset on the way.
C24_ExactlyMaxSteps ==
    script \in C24_Scripts =>
        /\ j <= 500
        /\ (pc = "done" /\ ret # <<>>) => (j = 500 /\ ret.total_steps = 500)

\* test_basic_locomujoco ran its loop to the end, an episode having ended
\* and been reset on the way
C24_Witness ==
    /\ script = "tle"
    /\ pc = "done"
    /\ ret # <<>>
    /\ j = 500
    /\ episode_count >= 1


-----------------------------------------------------------------------------
(* The environment-creation fallback chains                                *)

C25_Scripts == {"stut", "tle", "tg1"}

\* the candidates of the running script's chain, in the order of the source
C25_Chain ==
    CASE script = "stut" -> stut_approaches
      [] script = "tle" -> tle_environments_to_try
      [] script = "tg1" ->
            <<"UnitreeG1:walk">>
            \o [k \in 1..Len(tg1_tasks) |-> "UnitreeG1:" \o tg1_tasks[k]]
            \o <<"UnitreeG1:">>
      [] OTHER -> <<>>

\* the place in the chain of the candidate about to be created (0: none)
C25_Position ==
    CASE pc = "main" -> 1
      [] pc = "make" -> i
      [] pc = "task_make" -> i + 1
      [] pc = "final_make" -> Len(C25_Chain)
      [] OTHER -> 0

C25_Creates ==
    stut_make \/ tle_make \/ tg1_make \/ tg1_task_make \/ tg1_final_make

\* what the chains do in one step
C25_Step ==
    script \in C25_Scripts =>
        /\ C25_Creates =>
            /\ env = "unbound"
            /\ C25_Position \in 1..Len(C25_Chain)
            /\ (env' = "live") =>
                (arg' = C25_Chain[C25_Position] /\ C25_Position' = 0)
            /\ (env' # "live" /\ C25_Position' # 0) =>
                (C25_Position' = C25_Position + 1)
            /\ (env' # "live" /\ pc' = "done") =>
                (C25_Position = Len(C25_Chain))
        /\ (env = "live") => (env' = "live" /\ arg' = arg)
        /\ ~C25_Creates => (env' = env)

=============================================================================
